---- MODULE Spec2Model ----
(***************************************************************************)
(* A model of qmk_compiler's keyboard metadata extraction                  *)
(* (update_kb_redis.py, with memoize from qmk_commands.py).                *)
(*                                                                         *)
(* Python values are modelled as follows.                                  *)
(*   str   : the sequence of its words, i.e. the result of s.split(' ');   *)
(*           '' is <<"">>, 'a b' is <<"a", "b">>, so that s + ' ' + t is   *)
(*           the concatenation of the two sequences.                       *)
(*   dict  : a function whose DOMAIN is the set of keys; {} is <<>>.       *)
(*   True / False stored in a dict of strings: the markers PyTrue and      *)
(*           PyFalse, word sequences that no file content produces.        *)
(*   path  : the sequence of the strings substituted for the %s of the     *)
(*           path format.                                                  *)
(***************************************************************************)
EXTENDS Integers, Sequences, FiniteSets, TLC

VARIABLES
    error_log,   \* update_kb_redis.error_log, the module-global list
    r_fs,        \* rules.mk files of the tree: path -> sequence of lines
    r_pc,        \* position inside parse_rules_mk
    r_i,         \* number of lines of the keyboard's own rules.mk consumed
    r_prev,      \* rules_mk before the last consumed line
    r_map,       \* rules_mk, the dictionary being built
    c_lines,     \* the lines of the config.h being parsed
    c_i,         \* number of lines of it consumed
    c_prev,      \* config_h before the last consumed line
    c_map,       \* config_h, the dictionary being built
    k_text,      \* what preprocess_source returned for the keymap file
    k_pc,        \* position of the extract_keymap call
    k_result,    \* what extract_keymap returned
    tree,        \* the checked-out qmk_firmware tree
    run,         \* number of update_kb_redis calls started in this process
    pc,          \* position inside update_kb_redis / process_keyboard
    kb_i,        \* position of `for keyboard in list_keyboards()`
    trace,       \* per keyboard, the stages it went through in this run
    caught,      \* per keyboard, the exception `except Exception as e` bound
    cache,       \* find_layouts.cache, the dictionary memoize keeps
    heap,        \* the layout records find_layouts built, by identity
    fl_calls,    \* the find_layouts calls so far and whether each read its file
    kb_list,     \* update_kb_redis: kb_list
    usb_list,    \* update_kb_redis: usb_list
    kb_all,      \* update_kb_redis: kb_all
    keyboard_info, \* process_keyboard: keyboard_info
    kb_rules,    \* process_keyboard: rules_mk
    store,       \* redis: key -> the JSON document last written
    written_in,  \* redis: key -> the run that wrote it last
    prev_store,  \* redis as the previous run left it
    h_items,     \* the #define statements a header file is written from
    h_lines,     \* the lines of the header file find_layouts reads
    h_pc,        \* position of the find_layouts call
    h_result,    \* what find_layouts returned and the records it built
    m_files,     \* the info.json files merge_info_json is called with, in turn
    m_i,         \* number of merge_info_json calls made
    m_info,      \* keyboard_info, as the last call returned it
    m_objs,      \* the layout records keyboard_info['layouts'] refers to
    m_prev,      \* keyboard_info, the records and error_log before the last call
    p_rules,     \* rules_mk as process_keyboard passes it to the processor rules
    p_info,      \* keyboard_info before and after the processor rules
    p_pc,        \* position of the call of the processor rules
    u_configs,   \* per keyboard, config_h as parse_config_h returned it
    u_i,         \* number of keyboards whose USB entry was built
    u_usb,       \* usb_list, the registry being filled
    q_args,      \* the arguments of checkout_qmk and the world it was called in
    q_w,         \* the world: directories, checkouts, zip files, the cache
    q_pc,        \* position of the call of checkout_qmk
    g_debug,     \* the module variable debug
    g_w,         \* the world the job update_kb_redis runs in
    g_pc,        \* position of the job update_kb_redis
    g_flag,      \* redis key qmk_needs_update
    g_jobs,      \* update_needed jobs queued, each with the change it announces
    g_seen,      \* the requests written to the flag, before and after the reset
    g_used       \* the version of the checkout the run lists the keyboards of

rulesVars == <<r_fs, r_pc, r_i, r_prev, r_map>>

configVars == <<c_lines, c_i, c_prev, c_map>>

keymapVars == <<k_text, k_pc, k_result>>

runVars == <<tree, run, pc, kb_i, trace, caught, cache, heap, fl_calls, kb_list, usb_list,
             kb_all, keyboard_info, kb_rules, store, written_in, prev_store>>

layoutVars == <<h_items, h_lines, h_pc, h_result>>

mergeVars == <<m_files, m_i, m_info, m_objs, m_prev>>

classifyVars == <<p_rules, p_info, p_pc>>

usbVars == <<u_configs, u_i, u_usb>>

checkoutVars == <<q_args, q_w, q_pc>>

updateVars == <<g_debug, g_w, g_pc, g_flag, g_jobs, g_seen, g_used>>

moreVars == <<usbVars, checkoutVars, updateVars>>

unitVars == <<layoutVars, mergeVars, classifyVars, moreVars>>

vars == <<error_log, rulesVars, configVars, keymapVars, runVars, unitVars>>

(***************************************************************************)
(* Generic helpers.                                                        *)
(***************************************************************************)
Range(s) == {s[i] : i \in 1..Len(s)}

EmptyDict == <<>>

Put(d, k, v) == [x \in (DOMAIN d) \cup {k} |-> IF x = k THEN v ELSE d[x]]

Del(d, k) == [x \in (DOMAIN d) \ {k} |-> d[x]]

\* str.strip() of a run of words taken out of a line: '' when there is none.
Str(words) == IF words = <<>> THEN <<"">> ELSE words

SeqsUpTo(S, n) == UNION {[1..m -> S] : m \in 0..n}

Min(S) == CHOOSE x \in S : \A y \in S : x <= y

NoExc == [cls |-> "", msg |-> ""]

Exc(cls, msg) == [cls |-> cls, msg |-> msg]

LogError(log, message) == Append(log, [severity |-> "error", message |-> message])

LogWarning(log, message) == Append(log, [severity |-> "warning", message |-> message])

(***************************************************************************)
(* parse_rules_mk_file.  A line is the sequence of its blank-separated     *)
(* tokens.  The tokens that contain the character '=' are "=", "+=" and    *)
(* the word "d=1" (as in -DBOOTLOADER_SIZE=4096).                          *)
(***************************************************************************)
HasEq(tok) == tok \in {"=", "+=", "d=1"}

\* What tok.split('=', 1) leaves on either side, as word runs.
EqLeft(tok) == IF tok = "d=1" THEN <<"d">> ELSE IF tok = "+=" THEN <<"+">> ELSE <<>>

EqRight(tok) == IF tok = "d=1" THEN <<"1">> ELSE <<>>

\* line.strip().split('#')[0]
CutComment(line) ==
    IF \E i \in 1..Len(line) : line[i] = "#"
    THEN SubSeq(line, 1, Min({i \in 1..Len(line) : line[i] = "#"}) - 1)
    ELSE line

PlusEqAt(line) == {i \in 1..Len(line) : line[i] = "+="}

\* The value a 'KEY += value' line stores.
PlusEqValue(rules_mk, key, val) ==
    IF key \notin DOMAIN rules_mk THEN val ELSE rules_mk[key] \o val

\* One iteration of the loop over rules_mk_lines.
ApplyRulesLine(rules_mk, rawline) ==
    LET line == CutComment(rawline)
    IN  IF line = <<>> THEN [exc |-> NoExc, map |-> rules_mk]
        ELSE IF ~ \E i \in 1..Len(line) : HasEq(line[i])
        THEN [exc |-> NoExc, map |-> rules_mk]
        ELSE IF PlusEqAt(line) # {}
        THEN IF Cardinality(PlusEqAt(line)) # 1
             THEN [exc |-> Exc("ValueError", "too many values to unpack (expected 2)"),
                   map |-> rules_mk]
             ELSE LET i   == Min(PlusEqAt(line))
                      key == Str(SubSeq(line, 1, i - 1))
                      val == Str(SubSeq(line, i + 1, Len(line)))
                  IN  [exc |-> NoExc,
                       map |-> Put(rules_mk, key, PlusEqValue(rules_mk, key, val))]
        ELSE LET i   == Min({j \in 1..Len(line) : HasEq(line[j])})
                 key == Str(SubSeq(line, 1, i - 1) \o EqLeft(line[i]))
                 val == Str(EqRight(line[i]) \o SubSeq(line, i + 1, Len(line)))
             IN  [exc |-> NoExc, map |-> Put(rules_mk, key, val)]

RECURSIVE ParseRulesLines(_, _)
ParseRulesLines(rules_mk, lines) ==
    IF lines = <<>> THEN [exc |-> NoExc, map |-> rules_mk]
    ELSE LET r == ApplyRulesLine(rules_mk, Head(lines))
         IN  IF r.exc # NoExc THEN r ELSE ParseRulesLines(r.map, Tail(lines))

\* parse_rules_mk_file(file, rules_mk): a missing file leaves rules_mk alone.
ParseRulesMkFile(fs, file, rules_mk) ==
    IF file \in DOMAIN fs THEN ParseRulesLines(rules_mk, fs[file])
    ELSE [exc |-> NoExc, map |-> rules_mk]

DEFAULT_FOLDER == <<"DEFAULT_FOLDER">>

\* 'qmk_firmware/keyboards/%s/rules.mk' % keyboard
OwnPath(keyboard) == <<keyboard>>

\* The file of the folder itself: keyboards/<folder>/rules.mk.
FolderPath(folder) == <<folder>>

\* 'qmk_firmware/keyboards/%s/%s/rules.mk' % (keyboard, rules_mk['DEFAULT_FOLDER'])
\* evaluated after keyboard = rules_mk['DEFAULT_FOLDER'].
DefaultFolderPath(keyboard, folder) == <<folder, folder>>

\* parse_rules_mk(keyboard)
ParseRulesMk(fs, keyboard) ==
    LET own == ParseRulesMkFile(fs, OwnPath(keyboard), EmptyDict)
    IN  IF own.exc # NoExc THEN own
        ELSE IF DEFAULT_FOLDER \in DOMAIN own.map
        THEN ParseRulesMkFile(fs, DefaultFolderPath(keyboard, own.map[DEFAULT_FOLDER]),
                              own.map)
        ELSE own

(***************************************************************************)
(* parse_rules_mk on one keyboard, its own rules.mk taken line by line.    *)
(***************************************************************************)
MaxRulesLines == 3

RulesKeyboard == <<"kb">>

RulesLineSet ==
    { <<"A", "=", "x">>, <<"A", "+=", "x">>, <<"A", "+=", "y", "d=1">>,
      <<"A", "=">>, <<"B", "+=", "y">>, <<"B", "=", "y", "#", "x">>,
      <<"#", "A", "=", "x">>, <<"include", "x">>,
      <<"DEFAULT_FOLDER", "=", "df">>, <<"A", "+=", "x", "+=", "y">>,
      <<"A", "=", "x", "+=", "y">> }

\* The rules.mk a default folder may hold.
FolderFileSet == { <<>>, << <<"A", "=", "y">> >>, << <<"C", "=", "x">>, <<"B", "=", "x">> >> }

RulesTrees ==
    { [p \in D |-> CASE p = OwnPath(RulesKeyboard) -> own
                      [] p = FolderPath(<<"df">>) -> fold
                      [] OTHER -> << <<"A", "=", "x", "x">> >>] :
        own \in SeqsUpTo(RulesLineSet, MaxRulesLines),
        fold \in FolderFileSet,
        D \in { {OwnPath(RulesKeyboard)},
                {OwnPath(RulesKeyboard), FolderPath(<<"df">>)},
                {OwnPath(RulesKeyboard), FolderPath(<<"df">>),
                 DefaultFolderPath(RulesKeyboard, <<"df">>)} } }

OwnLines == r_fs[OwnPath(RulesKeyboard)]

\* The variables of parse_rules_mk while another function is under study.
RulesIdle ==
    /\ r_fs = EmptyDict
    /\ r_pc = "idle"
    /\ r_i = 0
    /\ r_prev = EmptyDict
    /\ r_map = EmptyDict

\* The variables of parse_config_h_file while another function is under study.
ConfigIdle ==
    /\ c_lines = <<>>
    /\ c_i = 0
    /\ c_prev = EmptyDict
    /\ c_map = EmptyDict

\* The variables of extract_keymap while another function is under study.
KeymapIdle ==
    /\ k_text = <<>>
    /\ k_pc = "idle"
    /\ k_result = <<>>

\* The variables of find_layouts while another function is under study.
LayoutsIdle ==
    /\ h_items = <<>>
    /\ h_lines = <<>>
    /\ h_pc = "idle"
    /\ h_result = EmptyDict

\* The variables of merge_info_json while another function is under study.
MergeIdle ==
    /\ m_files = <<>>
    /\ m_i = 0
    /\ m_info = EmptyDict
    /\ m_objs = EmptyDict
    /\ m_prev = EmptyDict

\* The variables of the processor rules while another function is under study.
ClassifyIdle ==
    /\ p_rules = EmptyDict
    /\ p_info = EmptyDict
    /\ p_pc = "idle"

UsbIdle ==
    /\ u_configs = <<>>
    /\ u_i = 0
    /\ u_usb = EmptyDict

CheckoutIdle ==
    /\ q_args = <<>>
    /\ q_w = <<>>
    /\ q_pc = "idle"

UpdateIdle ==
    /\ g_debug = FALSE
    /\ g_w = <<>>
    /\ g_pc = "idle"
    /\ g_flag = FALSE
    /\ g_jobs = <<>>
    /\ g_seen = <<>>
    /\ g_used = 0

MoreIdle == UsbIdle /\ CheckoutIdle /\ UpdateIdle

\* The variables of update_kb_redis while another function is under study.
RunIdle ==
    /\ tree = EmptyDict
    /\ run = 0
    /\ pc = "idle"
    /\ kb_i = 0
    /\ trace = EmptyDict
    /\ caught = EmptyDict
    /\ cache = EmptyDict
    /\ heap = EmptyDict
    /\ fl_calls = <<>>
    /\ kb_list = <<>>
    /\ usb_list = EmptyDict
    /\ kb_all = EmptyDict
    /\ keyboard_info = EmptyDict
    /\ kb_rules = EmptyDict
    /\ store = EmptyDict
    /\ written_in = EmptyDict
    /\ prev_store = EmptyDict

InitRules ==
    /\ error_log = <<>>
    /\ ConfigIdle
    /\ KeymapIdle
    /\ RunIdle
    /\ LayoutsIdle
    /\ MergeIdle
    /\ ClassifyIdle
    /\ MoreIdle
    /\ r_fs \in RulesTrees
    /\ r_pc = "own"
    /\ r_i = 0
    /\ r_prev = EmptyDict
    /\ r_map = EmptyDict

\* One pass of `for line in rules_mk_lines`.
RulesLine ==
    /\ r_pc = "own"
    /\ r_i < Len(OwnLines)
    /\ LET r == ApplyRulesLine(r_map, OwnLines[r_i + 1])
       IN  /\ r_map' = r.map
           /\ r_pc' = IF r.exc # NoExc THEN "raised" ELSE "own"
    /\ r_prev' = r_map
    /\ r_i' = r_i + 1
    /\ UNCHANGED <<error_log, r_fs, configVars, keymapVars, runVars, unitVars>>

\* The own file is consumed: `if 'DEFAULT_FOLDER' in rules_mk`.
RulesOwnEnd ==
    /\ r_pc = "own"
    /\ r_i = Len(OwnLines)
    /\ r_pc' = IF DEFAULT_FOLDER \in DOMAIN r_map THEN "default" ELSE "done"
    /\ r_prev' = r_map
    /\ UNCHANGED <<error_log, r_fs, r_i, r_map, configVars, keymapVars, runVars, unitVars>>

\* The second parse_rules_mk_file call, onto the same dictionary.
RulesDefault ==
    /\ r_pc = "default"
    /\ LET r == ParseRulesMkFile(r_fs,
                   DefaultFolderPath(RulesKeyboard, r_map[DEFAULT_FOLDER]), r_map)
       IN  /\ r_map' = r.map
           /\ r_pc' = IF r.exc # NoExc THEN "raised" ELSE "done"
    /\ r_prev' = r_map
    /\ UNCHANGED <<error_log, r_fs, r_i, configVars, keymapVars, runVars, unitVars>>

NextRules == RulesLine \/ RulesOwnEnd \/ RulesDefault

SpecRules == InitRules /\ [][NextRules]_vars

\* The line by line run ends where parse_rules_mk ends.
RulesAgree ==
    r_pc = "done" => r_map = ParseRulesMk(r_fs, RulesKeyboard).map

\* The values of the assignment lines; a value of make may hold '=' and '+='.
RulesValueSet == { <<>>, <<"x">>, <<"y">>, <<"y", "d=1">>, <<"x", "+=", "y">> }

\* The line `KEY op value`.
AssignLine(k, op, v) == <<k, op>> \o v

\* C9: in parse_rules_mk_file, for every sequence of assignment lines, `KEY +=
\* v` on a key not yet present yields the map `KEY = v` yields, `KEY += v` on a
\* present key appends v to the old value after one space, and `KEY = v`
\* replaces the value; no assignment line makes the function raise.
C9_PlusEqAndAssign ==
    (r_pc \in {"own", "raised"} /\ r_i >= 1) =>
        \A k \in {"A", "B"}, v \in RulesValueSet :
            /\ OwnLines[r_i] \in {AssignLine(k, "+=", v), AssignLine(k, "=", v)}
                   => r_pc # "raised"
            /\ (OwnLines[r_i] = AssignLine(k, "+=", v) /\ <<k>> \notin DOMAIN r_prev)
                   => /\ r_map = ApplyRulesLine(r_prev, AssignLine(k, "=", v)).map
                      /\ r_map = Put(r_prev, <<k>>, Str(v))
            /\ (OwnLines[r_i] = AssignLine(k, "+=", v) /\ <<k>> \in DOMAIN r_prev)
                   => r_map = Put(r_prev, <<k>>, r_prev[<<k>>] \o Str(v))
            /\ OwnLines[r_i] = AssignLine(k, "=", v)
                   => r_map = Put(r_prev, <<k>>, Str(v))

\* C10: with DEFAULT_FOLDER set, the rules.mk of that folder is parsed on top of
\* the keyboard's own result: own-only keys are kept, keys only the folder's
\* file assigns are added, and for a key both assign the folder's value is final.
C10_DefaultFolderOnTop ==
    (r_pc = "done" /\ DEFAULT_FOLDER \in DOMAIN r_prev) =>
        LET own  == r_prev
            dflt == ParseRulesMkFile(r_fs, FolderPath(own[DEFAULT_FOLDER]), EmptyDict).map
        IN  /\ \A k \in (DOMAIN own) \ (DOMAIN dflt) :
                   k \in DOMAIN r_map /\ r_map[k] = own[k]
            /\ \A k \in DOMAIN dflt :
                   k \in DOMAIN r_map /\ r_map[k] = dflt[k]

(***************************************************************************)
(* parse_config_h_file.  A line is the sequence line.split() gives; "//"   *)
(* starts a comment.                                                       *)
(***************************************************************************)
PyTrue == <<"<True>">>

PyFalse == <<"<False>">>

\* line[:line.index('//')]
CutSlashes(line) ==
    IF \E i \in 1..Len(line) : line[i] = "//"
    THEN SubSeq(line, 1, Min({i \in 1..Len(line) : line[i] = "//"}) - 1)
    ELSE line

\* An #undef that drops a valued key and leaves False for a flag.
UndefKeySwapped(config_h, key) ==
    IF key \in DOMAIN config_h
    THEN IF config_h[key] = PyTrue THEN Put(config_h, key, PyFalse) ELSE Del(config_h, key)
    ELSE config_h

\* `#undef KEY` with exactly one operand.
UndefKey(config_h, key) ==
    IF key \in DOMAIN config_h
    THEN IF config_h[key] = PyTrue THEN Del(config_h, key) ELSE Put(config_h, key, PyFalse)
    ELSE config_h

IncompleteMsg(what, file, linenum) ==
    [kind |-> what, file |-> file, line |-> linenum]

\* One iteration of the loop over enumerate(config_h_lines).
ApplyConfigLine(config_h, log, file, linenum, rawline) ==
    LET line == CutSlashes(rawline)
    IN  IF line = <<>> THEN [map |-> config_h, log |-> log]
        ELSE IF line[1] = "#define"
        THEN IF Len(line) = 1
             THEN [map |-> config_h,
                   log |-> LogError(log, IncompleteMsg("Incomplete #define", file, linenum))]
             ELSE IF Len(line) = 2
             THEN [map |-> Put(config_h, line[2], PyTrue), log |-> log]
             ELSE [map |-> Put(config_h, line[2], SubSeq(line, 3, Len(line))), log |-> log]
        ELSE IF line[1] = "#undef"
        THEN IF Len(line) = 2
             THEN [map |-> UndefKey(config_h, line[2]), log |-> log]
             ELSE [map |-> config_h,
                   log |-> LogError(log, IncompleteMsg("Incomplete #undef", file, linenum))]
        ELSE [map |-> config_h, log |-> log]

RECURSIVE ParseConfigLines(_, _, _, _, _)
ParseConfigLines(config_h, log, file, linenum, lines) ==
    IF lines = <<>> THEN [map |-> config_h, log |-> log]
    ELSE LET r == ApplyConfigLine(config_h, log, file, linenum, Head(lines))
         IN  ParseConfigLines(r.map, r.log, file, linenum + 1, Tail(lines))

\* parse_config_h_file(file, config_h): a missing file leaves config_h alone.
ParseConfigHFile(fs, log, file, config_h) ==
    IF file \in DOMAIN fs THEN ParseConfigLines(config_h, log, file, 0, fs[file])
    ELSE [map |-> config_h, log |-> log]

(***************************************************************************)
(* parse_config_h_file on one config.h, line by line.                      *)
(***************************************************************************)
MaxConfigLines == 3

ConfigFile == << <<"kb">> >>

ConfigLineSet ==
    { <<"#define", "K", "v">>, <<"#define", "K">>, <<"#undef", "K">>,
      <<"#define", "J", "v", "w">>, <<"#undef", "J">>, <<"#define">>,
      <<"#undef">>, <<"#define", "J", "//", "v">>, <<"//", "#define", "K">>,
      <<"#pragma", "once">> }

InitConfig ==
    /\ error_log = <<>>
    /\ RunIdle
    /\ LayoutsIdle
    /\ MergeIdle
    /\ ClassifyIdle
    /\ MoreIdle
    /\ RulesIdle
    /\ KeymapIdle
    /\ c_lines \in SeqsUpTo(ConfigLineSet, MaxConfigLines)
    /\ c_i = 0
    /\ c_prev = EmptyDict
    /\ c_map = EmptyDict

\* One pass of `for linenum, line in enumerate(config_h_lines)`.
ConfigLine ==
    /\ c_i < Len(c_lines)
    /\ LET r == ApplyConfigLine(c_map, error_log, ConfigFile, c_i, c_lines[c_i + 1])
       IN  /\ c_map' = r.map
           /\ error_log' = r.log
    /\ c_prev' = c_map
    /\ c_i' = c_i + 1
    /\ UNCHANGED <<c_lines, rulesVars, keymapVars, runVars, unitVars>>

NextConfig == ConfigLine

SpecConfig == InitConfig /\ [][NextConfig]_vars

\* C8 as claimed: `#undef KEY` removes a key defined with a value, and leaves
\* False for a key defined as a flag.
C8_UndefAsClaimed ==
    (c_i >= 1 /\ Len(c_lines[c_i]) = 2 /\ c_lines[c_i][1] = "#undef") =>
        LET k == c_lines[c_i][2]
        IN  k \in DOMAIN c_prev =>
                /\ c_prev[k] \notin {PyTrue, PyFalse} => k \notin DOMAIN c_map
                /\ c_prev[k] = PyTrue => (k \in DOMAIN c_map /\ c_map[k] = PyFalse)

\* C8 amended: `#undef KEY` removes a key defined as a flag (True), leaves the
\* tombstone False for a key that holds a value, and a key never defined stays
\* absent; no other key changes.
C8_UndefFlagRemovedValueFalse ==
    (c_i >= 1 /\ Len(c_lines[c_i]) = 2 /\ c_lines[c_i][1] = "#undef") =>
        LET k == c_lines[c_i][2]
        IN  /\ (k \in DOMAIN c_prev /\ c_prev[k] = PyTrue) => c_map = Del(c_prev, k)
            /\ (k \in DOMAIN c_prev /\ c_prev[k] # PyTrue) => c_map = Put(c_prev, k, PyFalse)
            /\ k \notin DOMAIN c_prev => c_map = c_prev

\* #define K v, #undef K leaves False; then #define K, #undef K removes K.
C8_Witness ==
    /\ c_i = 3
    /\ c_lines = << <<"#define", "J", "v", "w">>, <<"#define", "K">>, <<"#undef", "K">> >>
    /\ c_prev = ("J" :> <<"v", "w">> @@ "K" :> PyTrue)
    /\ c_map = ("J" :> <<"v", "w">>)

(***************************************************************************)
(* extract_keymap.  The flattened text preprocess_source returns is the    *)
(* sequence of its top-level items:                                        *)
(*   [t |-> "enum", members |-> <<[name, val], ...>>]   enum{...}, val ""  *)
(*                                            for a member without '='     *)
(*   [t |-> "keymaps", layers |-> <<[idx, macro, args], ...>>]             *)
(*                     constuint16_tPROGMEMkeymaps...={[idx]=macro(args),} *)
(*   [t |-> "other"]                          any other statement          *)
(* Enum member names are no substrings of one another or of other tokens.  *)
(***************************************************************************)
MaxEnumValue == 12

PyNone == <<"<None>">>

IsDigit(tok) == \E n \in 0..MaxEnumValue : ToString(n) = tok

PyInt(tok) == CHOOSE n \in 0..MaxEnumValue : ToString(n) = tok

\* ]=(LAYOUT[0-9a-z_]*)\(
LayoutMacroNames == {"LAYOUT", "LAYOUT_ortho"}

\* ]=(KEYMAP[0-9a-z_]*)\(
KeymapMacroNames == {"KEYMAP"}

\* [0-9A-Z_]* up to the opening parenthesis, in layers_re
IsUpperMacro(m) == m \in {"LAYOUT", "LAYOUT_ANSI", "KEYMAP"}

RECURSIVE SelectItems(_, _)
SelectItems(text, t) ==
    IF text = <<>> THEN <<>>
    ELSE IF Head(text).t = t THEN <<Head(text)>> \o SelectItems(Tail(text), t)
    ELSE SelectItems(Tail(text), t)

\* extract_layouts: keymap_re.findall(keymap_text)[0], None when there is none
\* (none |-> TRUE).  The text keymap_re matched is the first keymaps array up
\* to its `;`, never the empty string.  The warning goes to logging.warning,
\* not to error_log.
ExtractLayouts(keymap_text, log) ==
    LET found == SelectItems(keymap_text, "keymaps")
    IN  IF found = <<>> THEN [none |-> TRUE, keymap |-> <<>>, log |-> log]
        ELSE [none |-> FALSE, keymap |-> found[1].layers, log |-> log]

\* The members of one enum block, left to right: [repl, index].
RECURSIVE EnumBlock(_, _, _)
EnumBlock(members, replacements, index) ==
    IF members = <<>> THEN replacements
    ELSE LET m == Head(members)
         IN  IF m.val = ""
             THEN EnumBlock(Tail(members), Put(replacements, m.name, index), index + 1)
             ELSE IF m.val = "SAFE_RANGE" THEN replacements
             ELSE LET idx == IF IsDigit(m.val) THEN PyInt(m.val)
                             ELSE IF m.val \in DOMAIN replacements
                                  THEN replacements[m.val] ELSE index
                  IN  EnumBlock(Tail(members), Put(replacements, m.name, idx), idx + 1)

RECURSIVE EnumReplacements(_, _)
EnumReplacements(enums, replacements) ==
    IF enums = <<>> THEN replacements
    ELSE EnumReplacements(Tail(enums), EnumBlock(Head(enums).members, replacements, 0))

ReplaceTok(replacements, tok) ==
    IF tok \in DOMAIN replacements THEN ToString(replacements[tok]) ELSE tok

\* populate_enums: the keymap with every enum member replaced by its number.
\* An empty member name (a trailing comma) puts digits between all characters.
PopulateEnums(keymap_text, keymap) ==
    LET replacements == EnumReplacements(SelectItems(keymap_text, "enum"), EmptyDict)
    IN  IF "" \in DOMAIN replacements THEN <<>>
        ELSE [i \in 1..Len(keymap) |->
                [idx   |-> ReplaceTok(replacements, keymap[i].idx),
                 macro |-> ReplaceTok(replacements, keymap[i].macro),
                 args  |-> [j \in 1..Len(keymap[i].args) |->
                              ReplaceTok(replacements, keymap[i].args[j])]]]

\* The loop with a counter that only layers without an index take; a layer
\* with a name for an index is left out.
RECURSIVE ParseLayersEmptyOnly(_, _, _)
ParseLayersEmptyOnly(found, layers, layer_index) ==
    IF found = <<>> THEN layers
    ELSE IF ~ IsUpperMacro(Head(found).macro)
    THEN ParseLayersEmptyOnly(Tail(found), layers, layer_index)
    ELSE IF Head(found).idx = ""
    THEN ParseLayersEmptyOnly(Tail(found), Put(layers, layer_index, Str(Head(found).args)),
                              layer_index + 1)
    ELSE IF ~ IsDigit(Head(found).idx)
    THEN ParseLayersEmptyOnly(Tail(found), layers, layer_index)
    ELSE ParseLayersEmptyOnly(Tail(found),
                              Put(layers, PyInt(Head(found).idx), Str(Head(found).args)),
                              layer_index)

\* The loop over layers_re.findall(keymap): the dict of layers.
RECURSIVE ParseLayers(_, _, _)
ParseLayers(found, layers, layer_index) ==
    IF found = <<>> THEN layers
    ELSE LET l == Head(found)
         IN  IF ~ IsUpperMacro(l.macro) THEN ParseLayers(Tail(found), layers, layer_index)
             ELSE IF l.idx = "" \/ ~ IsDigit(l.idx)
             THEN ParseLayers(Tail(found), Put(layers, layer_index, Str(l.args)), layer_index + 1)
             ELSE ParseLayers(Tail(found), Put(layers, PyInt(l.idx), Str(l.args)), layer_index)

Max(S) == CHOOSE x \in S : \A y \in S : x >= y

\* The layers in the order of their indexes, without the gaps.
LayerListSparse(layers) ==
    [i \in 1..Cardinality(DOMAIN layers) |->
        layers[CHOOSE n \in DOMAIN layers : Cardinality({m \in DOMAIN layers : m < n}) = i - 1]]

\* layers.get(i) for i in range(max_int + 1)
LayerList(layers) ==
    IF DOMAIN layers = {} THEN <<>>
    ELSE [i \in 1..(Max(DOMAIN layers) + 1) |->
            IF (i - 1) \in DOMAIN layers THEN layers[i - 1] ELSE PyNone]

RECURSIVE AllLayers(_)
AllLayers(items) == IF items = <<>> THEN <<>> ELSE Head(items).layers \o AllLayers(Tail(items))

\* re.findall(...)[0] over the macro names that follow a `]=`, '' without match.
FirstMacro(found, names) ==
    IF \E i \in 1..Len(found) : found[i].macro \in names
    THEN found[Min({i \in 1..Len(found) : found[i].macro \in names})].macro
    ELSE ""

\* extract_keymap(keymap_file), on the text preprocess_source gave.
ExtractKeymap(keymap_text, log) ==
    LET e == ExtractLayouts(keymap_text, log)
    IN  IF e.none
        THEN [layout_macro |-> "", layers |-> <<>>, log |-> e.log]
        ELSE LET all    == AllLayers(SelectItems(keymap_text, "keymaps"))
                 lm     == FirstMacro(all, LayoutMacroNames)
                 macro  == IF lm # "" THEN lm ELSE FirstMacro(all, KeymapMacroNames)
                 keymap == PopulateEnums(keymap_text, e.keymap)
             IN  [layout_macro |-> macro,
                  layers |-> LayerList(ParseLayers(keymap, EmptyDict, 0)),
                  log |-> e.log]

(***************************************************************************)
(* extract_keymap on one keymap file.                                      *)
(***************************************************************************)
MaxItems == 3

KeymapItemSet ==
    { [t |-> "other"],
      [t |-> "enum", members |-> <<[name |-> "_BASE", val |-> ""], [name |-> "_FN", val |-> ""]>>],
      [t |-> "enum", members |-> <<[name |-> "KC_A", val |-> "10"], [name |-> "KC_B", val |-> ""],
                                   [name |-> "SAFE_RANGE", val |-> ""], [name |-> "KC_C", val |-> ""]>>],
      [t |-> "keymaps", layers |-> <<[idx |-> "0", macro |-> "LAYOUT", args |-> <<"KC_A", "KC_B">>],
                                     [idx |-> "2", macro |-> "LAYOUT", args |-> <<"KC_C">>]>>],
      [t |-> "keymaps", layers |-> <<>>],
      [t |-> "keymaps", layers |-> <<[idx |-> "", macro |-> "LAYOUT_ortho", args |-> <<"x">>]>>],
      [t |-> "keymaps", layers |-> <<[idx |-> "0", macro |-> "LAYOUT", args |-> <<"KC_A", "KC_B">>]>>],
      [t |-> "keymaps", layers |-> <<[idx |-> "_FN", macro |-> "KEYMAP", args |-> <<"KC_B">>],
                                     [idx |-> "", macro |-> "LAYOUT_ortho", args |-> <<"x">>],
                                     [idx |-> "", macro |-> "LAYOUT_ANSI", args |-> <<"y">>]>>] }

InitKeymap ==
    /\ error_log = <<>>
    /\ RunIdle
    /\ LayoutsIdle
    /\ MergeIdle
    /\ ClassifyIdle
    /\ MoreIdle
    /\ RulesIdle
    /\ ConfigIdle
    /\ k_text \in SeqsUpTo(KeymapItemSet, MaxItems)
    /\ k_pc = "call"
    /\ k_result = <<>>

\* The call extract_keymap(keymap_file).
DoExtractKeymap ==
    /\ k_pc = "call"
    /\ LET r == ExtractKeymap(k_text, error_log)
       IN  /\ k_result' = [layout_macro |-> r.layout_macro, layers |-> r.layers]
           /\ error_log' = r.log
    /\ k_pc' = "returned"
    /\ UNCHANGED <<k_text, rulesVars, configVars, runVars, unitVars>>

NextKeymap == DoExtractKeymap

SpecKeymap == InitKeymap /\ [][NextKeymap]_vars

NoKeymapsArray(text) == SelectItems(text, "keymaps") = <<>>

\* C7: when the text holds no keymaps array declaration, extract_keymap returns
\* an empty macro name and an empty layer list, and a warning for the missing
\* keymap has been appended to the ErrorLog.
C7_MissingKeymapLogged ==
    (k_pc = "returned" /\ NoKeymapsArray(k_text)) =>
        /\ k_result = [layout_macro |-> "", layers |-> <<>>]
        /\ Len(error_log) = 1
        /\ error_log[1].severity = "warning"

(***************************************************************************)
(* update_kb_redis: one worker process that runs the job several times on  *)
(* a qmk_firmware tree with the keyboards kb/a and kb/b.  A directory      *)
(* below qmk_firmware/keyboards is the sequence of its path components;    *)
(* the header <dir>/<name>.h, the info.json and the readme.md of a         *)
(* directory are named by the directory.  The tree is a record             *)
(*   order   : what list_keyboards() returns                               *)
(*   rules   : keyboard -> lines of its rules.mk                           *)
(*   config  : keyboard -> lines of its config.h                           *)
(*   headers : the directories that have a header                          *)
(*   info    : directory -> its info.json (directories that have one)      *)
(*   readme  : directory -> "file" or "dir", what its readme.md is         *)
(***************************************************************************)
MaxRuns == 2

KbA == <<"kb/a">>

KbB == <<"kb/b">>

Keyboards == {KbA, KbB}

\* path.split('/') for the paths of the tree.
SplitPath(path) ==
    CASE path = KbA -> <<"kb", "a">>
      [] path = KbB -> <<"kb", "b">>
      [] OTHER -> path

\* The directories the loop over keyboard.split('/') walks through.
Prefixes(dirs) == [i \in 1..Len(dirs) |-> SubSeq(dirs, 1, i)]

\* The rules.mk files of the tree as parse_rules_mk_file finds them.
RulesFiles(t) == [p \in {OwnPath(k) : k \in DOMAIN t.rules} |-> t.rules[p[1]]]

\* The config.h files of the tree as parse_config_h_file finds them.
ConfigFiles(t) == [p \in {<<k>> : k \in DOMAIN t.config} |-> t.config[p[1]]]

\* dict.get(key, default)
Get(d, k, default) == IF k \in DOMAIN d THEN d[k] ELSE default

\* The second half of parse_config_h: own is what the keyboard's own config.h
\* gave, rules the rules_mk parsed first.
ConfigOfFolder(t, rules, own) ==
    IF DEFAULT_FOLDER \in DOMAIN rules
    THEN ParseConfigHFile(ConfigFiles(t), own.log,
             <<rules[DEFAULT_FOLDER], rules[DEFAULT_FOLDER]>>, own.map)
    ELSE own

\* parse_config_h once parse_rules_mk(keyboard) returned or raised r.
ConfigAfterRules(t, keyboard, log, r) ==
    IF r.exc # NoExc THEN [exc |-> r.exc, map |-> EmptyDict, log |-> log]
    ELSE [exc |-> NoExc] @@
         ConfigOfFolder(t, r.map,
             ParseConfigHFile(ConfigFiles(t), log, <<keyboard>>, EmptyDict))

\* parse_config_h(keyboard)
ParseConfigH(t, keyboard, log) ==
    ConfigAfterRules(t, keyboard, log, ParseRulesMk(RulesFiles(t), keyboard))

(***************************************************************************)
(* find_layouts.  A header is the list of the function macros its lines    *)
(* define, each with the rows of its argument list (a row is the labels    *)
(* between two ",\n"), and the list of its other #define lines.  A layout  *)
(* record is an object: the dictionary find_layouts returns holds the      *)
(* identity <<file, macro>> of each record, and the records live in a      *)
(* heap, so that two names for one record share it.                        *)
(***************************************************************************)
\* ''.join(atoms): a text is the sequence of its lexical atoms (words, single
\* punctuation characters, single blanks), none of which is part of another.
RECURSIVE Join(_)
Join(atoms) == IF atoms = <<>> THEN "" ELSE Head(atoms) \o Join(Tail(atoms))

\* str.strip(): the blanks at both ends go.
RECURSIVE Strip(_)
Strip(s) ==
    IF s # <<>> /\ Head(s) \in {" ", "\t", "\n"} THEN Strip(Tail(s))
    ELSE IF s # <<>> /\ s[Len(s)] \in {" ", "\t", "\n"} THEN Strip(SubSeq(s, 1, Len(s) - 1))
    ELSE s

\* s.split(sep, max) continued: piece is the part read since the last sep.
RECURSIVE SplitMax(_, _, _, _)
SplitMax(s, sep, max, piece) ==
    IF s = <<>> \/ max = 0 THEN <<piece \o s>>
    ELSE IF Len(s) >= Len(sep) /\ SubSeq(s, 1, Len(sep)) = sep
    THEN <<piece>> \o SplitMax(SubSeq(s, Len(sep) + 1, Len(s)), sep, max - 1, <<>>)
    ELSE SplitMax(Tail(s), sep, max, Append(piece, Head(s)))

\* 'LAYOUT' in line or 'KEYMAP' in line, for the words headers are written with
HasLayoutWord(line) ==
    \E i \in 1..Len(line) :
        line[i] \in {"LAYOUT", "LAYOUT_a", "LAYOUT_all", "LAYOUT_kc", "XLAYOUT", "KEYMAP"}

\* aliases[pp_macro_name] = pp_macro_text: a dict keeps the place of the first
\* assignment of a key and the value of the last.
SetAlias(aliases, name, text) ==
    IF \E i \in 1..Len(aliases) : aliases[i].name = name
    THEN [i \in 1..Len(aliases) |->
            IF aliases[i].name = name THEN [name |-> name, text |-> text] ELSE aliases[i]]
    ELSE Append(aliases, [name |-> name, text |-> text])

\* One iteration of `for line in unicode_lines(file)`, parts being
\* line.strip().split(' ', 2).
ScanLine(st, line, parts) ==
    LET start   == ~ st.writing /\ "#define" \in Range(line) /\ "(" \in Range(line)
                      /\ HasLayoutWord(line)
        writing == st.writing \/ start
        current == IF writing THEN st.current \o Strip(line) \o <<"\n">> ELSE st.current
        aliases == IF ~ writing /\ "#define" \in Range(line) /\ Len(parts) = 3
                   THEN SetAlias(st.aliases, Join(parts[2]), Join(parts[3]))
                   ELSE st.aliases
    IN  IF writing /\ ")" \in Range(line)
        THEN [writing |-> FALSE, current |-> <<>>, aliases |-> aliases,
              discovered |-> Append(st.discovered, current)]
        ELSE [writing |-> writing, current |-> current, aliases |-> aliases,
              discovered |-> st.discovered]

\* The loop over the lines of the file.
RECURSIVE ScanLines(_, _)
ScanLines(st, lines) ==
    IF lines = <<>> THEN st
    ELSE ScanLines(ScanLine(st, Head(lines), SplitMax(Strip(Head(lines)), <<" ">>, 2, <<>>)),
                   Tail(lines))

\* [key for key in row.split(',')], a key being the text between two commas
LabelsOf(keys) == [j \in 1..Len(keys) |-> Join(keys[j])]

\* keymap.strip().split(',\n'), each row split at its commas
RowsOf(rows) ==
    [i \in 1..Len(rows) |-> LabelsOf(SplitMax(rows[i], <<",">>, Len(rows[i]), <<>>))]

\* One discovered keymap: the text cleaned of backslashes, blanks and
\* '#define', the macro name before the first '(' and the rows up to the
\* first ')' after it; parts is the cleaned text split at the first '('.
MacroOf(parts) ==
    [name |-> Join(parts[1]),
     rows |-> RowsOf(SplitMax(Strip(SplitMax(parts[2], <<")">>, 1, <<>>)[1]),
                              <<",", "\n">>, Len(parts[2]), <<>>))]

\* keymap.replace('\\', '').replace(' ', '').replace('\t', '').replace('#define', '')
Cleaned(keymap) == SelectSeq(keymap, LAMBDA a : a \notin {"\\", " ", "\t", "#define"})

\* The function macros and the other #defines of a header, as find_layouts
\* reads them from its lines.
ParseHeader(lines) ==
    [macros  |-> [i \in 1..Len(ScanLines([writing |-> FALSE, current |-> <<>>,
                                           aliases |-> <<>>, discovered |-> <<>>],
                                          lines).discovered) |->
                     MacroOf(SplitMax(Cleaned(ScanLines([writing |-> FALSE, current |-> <<>>,
                                                         aliases |-> <<>>, discovered |-> <<>>],
                                                        lines).discovered[i]),
                                      <<"(">>, 1, <<>>))],
     aliases |-> ScanLines([writing |-> FALSE, current |-> <<>>, aliases |-> <<>>,
                            discovered |-> <<>>], lines).aliases]

\* The lines of the headers of the tree; a file that ends with a newline has
\* an empty last line.
HeaderLines(dir) ==
    CASE dir = <<"kb">> ->
           << <<"#pragma", " ", "once">>,
              <<"#define", " ", "LAYOUT", "(", " ", "\\">>,
              <<" ", " ", "k0", ",", " ", "k1", " ", "\\">>,
              <<")">>,
              <<>> >>
      [] dir = <<"kb", "a">> ->
           << <<"#define", " ", "LAYOUT_a", "(", " ", "\\">>,
              <<" ", " ", "k0", ",", " ", "\\">>,
              <<" ", " ", "k1", " ", "\\">>,
              <<")">>,
              <<"#define", " ", "LAYOUT_all", " ", "LAYOUT_a">>,
              <<"#define", " ", "COLS", " ", "2">>,
              <<>> >>
      [] dir = <<"kb", "b">> ->
           << <<"#define", " ", "LAYOUT_kc", "(", " ", "\\">>,
              <<" ", " ", "k0", ",", " ", "\\">>,
              <<")">>,
              <<"#define", " ", "XLAYOUT", "(", " ", "\\">>,
              <<" ", " ", "k0", " ", "\\">>,
              <<")">>,
              <<>> >>
      [] OTHER -> <<>>

\* What find_layouts reads in the header of a directory.
HeaderText(dir) == ParseHeader(HeaderLines(dir))

\* macro_name.startswith('KEYMAP') or macro_name.startswith('LAYOUT')
StartsWithLayout(name) == name \in {"LAYOUT", "LAYOUT_a", "LAYOUT_all", "LAYOUT_kc", "KEYMAP"}

\* default_key(label) once default_key_entry['x'] is x - 1 and ['y'] is y.
DefaultKey(x, y, label) ==
    IF label = "" THEN [x |-> x, y |-> y, w |-> 1]
    ELSE [x |-> x, y |-> y, w |-> 1, label |-> label]

\* [default_key(key) for key in row.split(',')] after default_key_entry['x'] = -1.
RowKeys(row, y) == [i \in 1..Len(row) |-> DefaultKey(i - 1, y, row[i])]

\* The loop over the rows; default_key_entry['y'] starts from -1 for each macro.
RECURSIVE ParseRows(_, _)
ParseRows(rows, y) ==
    IF rows = <<>> THEN <<>> ELSE RowKeys(Head(rows), y) \o ParseRows(Tail(rows), y + 1)

\* parsed_keymaps[macro_name] = {'key_count': ..., 'layout': ...}
LayoutRecord(rows) ==
    LET parsed_keymap == ParseRows(rows, 0)
    IN  [key_count |-> Len(parsed_keymap), layout |-> parsed_keymap]

\* The loop over discovered_keymaps: name -> identity of the record.
RECURSIVE ParsedKeymaps(_, _, _)
ParsedKeymaps(file, macros, parsed) ==
    IF macros = <<>> THEN parsed
    ELSE ParsedKeymaps(file, Tail(macros),
             IF StartsWithLayout(Head(macros).name)
             THEN Put(parsed, Head(macros).name, <<file, Head(macros).name>>)
             ELSE parsed)

\* The loop over aliases.items(): the alias is bound to the record itself.
RECURSIVE ApplyAliases(_, _)
ApplyAliases(aliases, parsed) ==
    IF aliases = <<>> THEN parsed
    ELSE ApplyAliases(Tail(aliases),
             IF Head(aliases).text \in DOMAIN parsed
             THEN Put(parsed, Head(aliases).name, parsed[Head(aliases).text])
             ELSE parsed)

\* The records one execution of the body of find_layouts allocates.
NewRecords(file, macros) ==
    LET kept == {i \in 1..Len(macros) : StartsWithLayout(macros[i].name)}
        last(n) == Max({i \in kept : macros[i].name = n})
    IN  [id \in {<<file, macros[i].name>> : i \in kept} |-> LayoutRecord(macros[last(id[2])].rows)]

\* The two loops of find_layouts after the lines are read: h holds the
\* function macros and the other #defines found.
FindLayoutsIn(file, h) ==
    [result  |-> ApplyAliases(h.aliases, ParsedKeymaps(file, h.macros, EmptyDict)),
     records |-> NewRecords(file, h.macros)]

\* The body of find_layouts: reads the file and parses it.
FindLayoutsBody(file) == FindLayoutsIn(file, HeaderText(file))

\* memoize: a call whose key is in the cache returns the cached object and
\* does not read the file.
FindLayoutsCached(mem, file) ==
    [result |-> mem.cache[file],
     mem    |-> [mem EXCEPT !.calls = Append(@, [file |-> file, read |-> FALSE])]]

\* memoize: cache[key] = obj(*args, **kwargs), body being what obj returned.
Memoized(mem, file, body) ==
    [result |-> body.result,
     mem    |-> [cache |-> Put(mem.cache, file, body.result),
                 heap  |-> body.records @@ mem.heap,
                 calls |-> Append(mem.calls, [file |-> file, read |-> TRUE])]]

\* memoize: a call whose key is not in the cache runs the body and keeps the
\* result.
FindLayoutsFresh(mem, file) == Memoized(mem, file, FindLayoutsBody(file))

\* find_layouts(file) as decorated: mem is the cache, the heap of records
\* and the list of calls made.
FindLayouts(mem, file) ==
    IF file \in DOMAIN mem.cache THEN FindLayoutsCached(mem, file)
    ELSE FindLayoutsFresh(mem, file)

\* `for directory in keyboard_path.split('/')`: layouts.update(find_layouts(...))
RECURSIVE StandardHeaders(_, _, _, _)
RECURSIVE UpdateLayouts(_, _, _, _)
StandardHeaders(t, dirs, layouts, mem) ==
    IF dirs = <<>> THEN [layouts |-> layouts, mem |-> mem]
    ELSE IF Head(dirs) \in t.headers
    THEN UpdateLayouts(t, Tail(dirs), layouts, FindLayouts(mem, Head(dirs)))
    ELSE StandardHeaders(t, Tail(dirs), layouts, mem)

\* layouts.update(f.result), f being what the find_layouts call gave, and
\* the rest of the loop.
UpdateLayouts(t, dirs, layouts, f) == StandardHeaders(t, dirs, f.result @@ layouts, f.mem)

\* layout_name[7:] for the names that start with 'LAYOUT_'
AfterLayoutPrefix(name) ==
    CASE name = "LAYOUT_a" -> "a"
      [] name = "LAYOUT_all" -> "all"
      [] name = "LAYOUT_kc" -> "kc"
      [] OTHER -> ""

\* list.remove(x): the first occurrence goes.
RemoveFirst(s, x) ==
    IF x \in Range(s)
    THEN LET i == Min({j \in 1..Len(s) : s[j] = x})
         IN  SubSeq(s, 1, i - 1) \o SubSeq(s, i + 1, Len(s))
    ELSE s

\* The loop over sorted(layouts) that strikes the macros found off the list.
RECURSIVE StrikeFound(_, _)
StrikeFound(names, supported) ==
    IF names = {} THEN supported
    ELSE LET n == CHOOSE x \in names : TRUE
         IN  StrikeFound(names \ {n},
                 IF n \in {"LAYOUT_a", "LAYOUT_all", "LAYOUT_kc"}
                 THEN RemoveFirst(supported, AfterLayoutPrefix(n))
                 ELSE supported)

\* rules_mk['LAYOUTS'].strip().split()
SplitWords(s) == SelectSeq(s, LAMBDA w : w # "")

\* `if not layouts: log_warning(...)`.  The glob that follows looks below
\* qmk_firmware/<keyboard>, not below qmk_firmware/keyboards, where the tree
\* has no file.
FallbackLog(keyboard, log, layouts) ==
    IF DOMAIN layouts = {}
    THEN LogWarning(log, [kind |-> "Falling back to searching for KEYMAP/LAYOUT macros.",
                          keyboard |-> keyboard])
    ELSE log

\* supported_layouts after the loop over sorted(layouts)
Unsupported(rules, layouts) ==
    IF <<"LAYOUTS">> \in DOMAIN rules
    THEN StrikeFound(DOMAIN layouts, SplitWords(rules[<<"LAYOUTS">>]))
    ELSE <<>>

\* `if supported_layouts: log_error(...)`
MissingLog(keyboard, log, left) ==
    IF left # <<>>
    THEN LogError(log, [kind |-> "Missing layout pp macro for", keyboard |-> keyboard,
                        layouts |-> left])
    ELSE log

\* The end of find_all_layouts, std being what the standard headers gave.
CheckLayouts(keyboard, log, rules, std) ==
    [exc |-> NoExc, layouts |-> std.layouts, mem |-> std.mem,
     log |-> MissingLog(keyboard, FallbackLog(keyboard, log, std.layouts),
                        Unsupported(rules, std.layouts))]

\* find_all_layouts once parse_rules_mk(keyboard) returned or raised r.
LayoutsAfterRules(t, keyboard, mem, log, r) ==
    IF r.exc # NoExc
    THEN [exc |-> r.exc, layouts |-> EmptyDict, mem |-> mem, log |-> log]
    ELSE CheckLayouts(keyboard, log, r.map,
             StandardHeaders(t, Prefixes(SplitPath(Get(r.map, DEFAULT_FOLDER, keyboard))),
                             EmptyDict, mem))

\* find_all_layouts(keyboard)
FindAllLayouts(t, keyboard, mem, log) ==
    LayoutsAfterRules(t, keyboard, mem, log, ParseRulesMk(RulesFiles(t), keyboard))

(***************************************************************************)
(* find_info_json and merge_info_json.  An info.json is a record: kind is  *)
(* "dict" for a JSON object, "list" for valid JSON that is no object,      *)
(* "invalid" for a file json.load rejects; fields holds the top-level      *)
(* members other than layouts; layouts is the list of the items of its     *)
(* 'layouts' object, an item without the member 'layout' having no field   *)
(* layout.                                                                 *)
(***************************************************************************)
\* The info.json files two directories above qmk_firmware/keyboards/<keyboard>
\* and higher are outside keyboards/, where the tree has no file.
AncestorDirs(dirs) == SelectSeq(Prefixes(dirs), LAMBDA d : Len(d) >= Len(dirs) - 4)

\* The second half of find_info_json: files is the list so far, rules what
\* parse_rules_mk_file returned or raised.
InfoJsonFiles(t, files, rules) ==
    IF rules.exc # NoExc THEN [exc |-> rules.exc, files |-> <<>>]
    ELSE IF /\ DEFAULT_FOLDER \in DOMAIN rules.map
            /\ SplitPath(rules.map[DEFAULT_FOLDER]) \in DOMAIN t.info
    THEN [exc |-> NoExc, files |-> Append(files, SplitPath(rules.map[DEFAULT_FOLDER]))]
    ELSE [exc |-> NoExc, files |-> files]

\* find_info_json(keyboard).  It is memoized as well; the list depends on the
\* tree only.
FindInfoJson(t, keyboard) ==
    InfoJsonFiles(t, SelectSeq(AncestorDirs(SplitPath(keyboard)), LAMBDA d : d \in DOMAIN t.info),
                  ParseRulesMkFile(RulesFiles(t), OwnPath(keyboard), EmptyDict))

IdentityKeys ==
    {"keyboard_name", "manufacturer", "identifier", "url", "maintainer", "processor",
     "bootloader", "width", "height"}

\* The keys copied only where the record has none: the record wins.
MergeFieldsKeep(fields, info) ==
    [k \in (DOMAIN info) \cup ((DOMAIN fields) \cap IdentityKeys) |->
        IF k \in DOMAIN info THEN info[k] ELSE fields[k]]

\* `for key in (...): if key in info_json: keyboard_info[key] = info_json[key]`
MergeFields(fields, info) ==
    [k \in (DOMAIN info) \cup ((DOMAIN fields) \cap IdentityKeys) |->
        IF k \in (DOMAIN fields) \cap IdentityKeys THEN fields[k] ELSE info[k]]

MismatchMsg(info, name, info_len, keymap_len) ==
    [kind |-> "Number of elements in info.json does not match!",
     keyboard |-> info["keyboard_folder"], layout |-> name,
     info_len |-> info_len, keymap_len |-> keymap_len]

\* keyboard_info['layouts'][layout_name]['layout'] = json_layout['layout']:
\* the record the name is bound to is changed in place.
AdoptLayout(info, objs, name, layout) ==
    [objs EXCEPT ![info["layouts"][name]].layout = layout]

\* The loop with the layouts only the manifest names taken into the record.
RECURSIVE MergeLayoutsAdding(_, _, _, _)
MergeLayoutsAdding(items, info, objs, log) ==
    IF items = <<>> THEN [exc |-> NoExc, info |-> info, objs |-> objs, log |-> log]
    ELSE IF "layout" \notin DOMAIN Head(items)
    THEN [exc |-> Exc("KeyError", "'layout'"), info |-> info, objs |-> objs, log |-> log]
    ELSE IF Head(items).name \notin DOMAIN info["layouts"]
    THEN MergeLayoutsAdding(Tail(items),
             [info EXCEPT !["layouts"] =
                 Put(info["layouts"], Head(items).name, <<<<"info.json">>, Head(items).name>>)],
             Put(objs, <<<<"info.json">>, Head(items).name>>,
                 [key_count |-> Len(Head(items).layout), layout |-> Head(items).layout]),
             log)
    ELSE IF Len(objs[info["layouts"][Head(items).name]].layout) # Len(Head(items).layout)
    THEN MergeLayoutsAdding(Tail(items), info, objs,
             LogError(log, MismatchMsg(info, Head(items).name, Len(Head(items).layout),
                          Len(objs[info["layouts"][Head(items).name]].layout))))
    ELSE MergeLayoutsAdding(Tail(items), info,
             AdoptLayout(info, objs, Head(items).name, Head(items).layout), log)

\* `for layout_name, json_layout in info_json['layouts'].items()`
RECURSIVE MergeLayouts(_, _, _, _)
MergeLayouts(items, info, objs, log) ==
    IF items = <<>> THEN [exc |-> NoExc, info |-> info, objs |-> objs, log |-> log]
    ELSE LET item == Head(items)
         IN  IF item.name \notin DOMAIN info["layouts"]
             THEN MergeLayouts(Tail(items), info, objs, log)
             ELSE IF "layout" \notin DOMAIN item
             THEN [exc |-> Exc("KeyError", "'layout'"), info |-> info, objs |-> objs, log |-> log]
             ELSE IF Len(objs[info["layouts"][item.name]].layout) # Len(item.layout)
             THEN MergeLayouts(Tail(items), info, objs,
                      LogError(log, MismatchMsg(info, item.name, Len(item.layout),
                                   Len(objs[info["layouts"][item.name]].layout))))
             ELSE MergeLayouts(Tail(items), info,
                      AdoptLayout(info, objs, item.name, item.layout), log)

\* merge_info_json returning the record for a manifest it cannot use without
\* a word in the error log.
MergeInfoJsonQuiet(t, file, info, objs, log) ==
    IF t.info[file].kind # "dict"
    THEN [exc |-> NoExc, info |-> info, objs |-> objs, log |-> log]
    ELSE MergeLayouts(t.info[file].layouts, MergeFields(t.info[file].fields, info), objs, log)

\* merge_info_json(info_json, keyboard_info)
MergeInfoJson(t, file, info, objs, log) ==
    LET info_json == t.info[file]
    IN  IF info_json.kind = "invalid"
        THEN [exc |-> NoExc, info |-> info, objs |-> objs,
              log |-> LogError(log, [kind |-> "Could not parse as JSON", file |-> file])]
        ELSE IF info_json.kind # "dict"
        THEN [exc |-> NoExc, info |-> info, objs |-> objs,
              log |-> LogError(log, [kind |-> "is invalid! Should be a JSON dict object.",
                                     file |-> file])]
        ELSE MergeLayouts(info_json.layouts, MergeFields(info_json.fields, info), objs, log)

\* The loop taking the files from the last to the first.
RECURSIVE MergeAllBackwards(_, _, _, _, _)
MergeAllBackwards(t, files, info, objs, log) ==
    IF files = <<>> THEN [exc |-> NoExc, info |-> info, objs |-> objs, log |-> log]
    ELSE IF MergeInfoJson(t, files[Len(files)], info, objs, log).exc # NoExc
    THEN MergeInfoJson(t, files[Len(files)], info, objs, log)
    ELSE MergeAllBackwards(t, SubSeq(files, 1, Len(files) - 1),
                           MergeInfoJson(t, files[Len(files)], info, objs, log).info,
                           MergeInfoJson(t, files[Len(files)], info, objs, log).objs,
                           MergeInfoJson(t, files[Len(files)], info, objs, log).log)

\* `for info_json_filename in find_info_json(keyboard)`
RECURSIVE MergeAll(_, _, _, _, _)
RECURSIVE MergeRest(_, _, _)
MergeAll(t, files, info, objs, log) ==
    IF files = <<>> THEN [exc |-> NoExc, info |-> info, objs |-> objs, log |-> log]
    ELSE MergeRest(t, Tail(files), MergeInfoJson(t, Head(files), info, objs, log))

\* The loop after one merge_info_json call returned or raised r.
MergeRest(t, files, r) ==
    IF r.exc # NoExc THEN r ELSE MergeAll(t, files, r.info, r.objs, r.log)

(***************************************************************************)
(* build_keyboard_info, build_usb_entry, the processor rules and           *)
(* store_keyboard_readme.                                                  *)
(***************************************************************************)
BuildKeyboardInfo(keyboard) ==
    [keyboard_name |-> keyboard, keyboard_folder |-> keyboard, keymaps |-> <<>>,
     layouts |-> EmptyDict, maintainer |-> <<"qmk">>, readme |-> FALSE]

\* `if not layout_name.startswith('LAYOUT_kc')`
WithoutKc(layouts) == [n \in (DOMAIN layouts) \ {"LAYOUT_kc"} |-> layouts[n]]

\* key.lower()
Lower(key) ==
    CASE key = "VENDOR_ID" -> "vendor_id"
      [] key = "PRODUCT_ID" -> "product_id"
      [] key = "DEVICE_VER" -> "device_ver"
      [] key = "MANUFACTURER" -> "manufacturer"
      [] key = "DESCRIPTION" -> "description"

\* The characters of the words the USB IDs of the config.h files are written
\* with: a prefix, or none, and one or two hexadecimal digits.
UsbSpellings ==
    {prefix \o digits : prefix \in {<<>>, <<"0", "x">>, <<"0", "X">>},
                        digits \in UNION {[1..n -> {"c", "C", "1"}] : n \in 1..2}}

\* The words with their characters, those of the trees and the defaults of
\* build_usb_entry included.
Spellings ==
    UsbSpellings \cup { <<"0", "x", "c", "1", "e", "d">>, <<"0", "X", "2", "3", "2", "8">>,
                        <<"0", "x", "0", "0", "0", "1">>, <<"0", "x", "C", "1", "E", "D">>,
                        <<"0", "x", "2", "3", "2", "8">>, <<"0", "x", "F", "E", "E", "D">>,
                        <<"0", "x", "0", "0", "0", "0">>, <<"0", "x", "1", "2", "3", "4">> }

\* The characters of a word; a word without a spelling is one character.
Spelling(w) ==
    IF \E cs \in Spellings : Join(cs) = w THEN CHOOSE cs \in Spellings : Join(cs) = w
    ELSE <<w>>

\* str.upper() of one character
UpperChar(c) ==
    CASE c = "a" -> "A" [] c = "b" -> "B" [] c = "c" -> "C" [] c = "d" -> "D"
      [] c = "e" -> "E" [] c = "f" -> "F" [] c = "x" -> "X" [] OTHER -> c

\* str.replace('0X', ''): the occurrences from the left, none overlapping
RECURSIVE Replace0X(_)
Replace0X(cs) ==
    IF Len(cs) < 2 THEN cs
    ELSE IF cs[1] = "0" /\ cs[2] = "X" THEN Replace0X(SubSeq(cs, 3, Len(cs)))
    ELSE <<cs[1]>> \o Replace0X(Tail(cs))

\* The characters of word.upper().replace('0X', '')
UpperNo0XChars(cs) == Replace0X([i \in 1..Len(cs) |-> UpperChar(cs[i])])

\* word.upper().replace('0X', '')
UpperNo0X(w) == Join(UpperNo0XChars(Spelling(w)))

\* A prefix that is left out.
With0xBare(w) == w

\* '0x' + word
With0x(w) == "0x" \o w

\* '0x' + config_h[key].upper().replace('0X', '')
HexId(value) ==
    [i \in 1..Len(value) |-> IF i = 1 THEN With0x(UpperNo0X(value[i])) ELSE UpperNo0X(value[i])]

\* The loop over the five keys of build_usb_entry.
RECURSIVE UsbFields(_, _, _, _)
UsbFields(keys, info, config_h, usb_entry) ==
    IF keys = <<>> THEN [exc |-> NoExc, info |-> info, usb_entry |-> usb_entry]
    ELSE LET key == Head(keys)
         IN  IF key \notin DOMAIN config_h
             THEN UsbFields(Tail(keys), info, config_h, usb_entry)
             ELSE IF /\ key \in {"VENDOR_ID", "PRODUCT_ID", "DEVICE_VER"}
                     /\ config_h[key] \in {PyTrue, PyFalse}
             THEN [exc |-> Exc("AttributeError", "'bool' object has no attribute 'upper'"),
                   info |-> info, usb_entry |-> usb_entry]
             ELSE LET v == IF key \in {"VENDOR_ID", "PRODUCT_ID", "DEVICE_VER"}
                           THEN HexId(config_h[key]) ELSE config_h[key]
                  IN  UsbFields(Tail(keys), Put(info, Lower(key), v), config_h,
                                Put(usb_entry, Lower(key), v))

\* usb_entry['vendor_id'] = usb_entry.get('vendor_id', '0xFEED') and the same
\* for the product_id
WithDefaults(usb_entry) ==
    Put(Put(usb_entry, "vendor_id", Get(usb_entry, "vendor_id", <<"0xFEED">>)),
        "product_id", Get(usb_entry, "product_id", <<"0x0000">>))

\* `if vendor_id not in usb_list: usb_list[vendor_id] = {}`
WithVendor(usb, vendor_id) ==
    IF vendor_id \in DOMAIN usb THEN usb ELSE Put(usb, vendor_id, EmptyDict)

\* `if product_id not in usb_list[vendor_id]: usb_list[vendor_id][product_id] = {}`
WithProduct(usb, vendor_id, product_id) ==
    IF product_id \in DOMAIN usb[vendor_id] THEN usb
    ELSE Put(usb, vendor_id, Put(usb[vendor_id], product_id, EmptyDict))

\* The second half of build_usb_entry, f being what the loop gave.
UsbEntryOf(usb, f) ==
    IF f.exc # NoExc
    THEN [exc |-> f.exc, info |-> f.info, usb_entry |-> f.usb_entry, usb |-> usb]
    ELSE [exc |-> NoExc, info |-> f.info, usb_entry |-> WithDefaults(f.usb_entry),
          usb |-> WithProduct(WithVendor(usb, WithDefaults(f.usb_entry)["vendor_id"]),
                              WithDefaults(f.usb_entry)["vendor_id"],
                              WithDefaults(f.usb_entry)["product_id"])]

\* build_usb_entry(keyboard_info, config_h, usb_list): the entry, and usb_list
\* with the dictionaries of the vendor and of the product created.
BuildUsbEntry(info, config_h, usb) ==
    UsbEntryOf(usb, UsbFields(<<"VENDOR_ID", "PRODUCT_ID", "DEVICE_VER", "MANUFACTURER",
                                "DESCRIPTION">>,
                              info, config_h, [keyboard |-> info["keyboard_folder"]]))

\* usb_list[usb_entry['vendor_id']][usb_entry['product_id']][keyboard] = usb_entry
InsertUsbEntry(usb, keyboard, usb_entry) ==
    LET v == usb_entry["vendor_id"]
        p == usb_entry["product_id"]
    IN  Put(usb, v, Put(usb[v], p, Put(usb[v][p], keyboard, usb_entry)))

ARM_PROCESSORS ==
    { <<"cortex-m0">>, <<"cortex-m0plus">>, <<"cortex-m3">>, <<"cortex-m4">>, <<"MKL26Z64">>,
      <<"MK20DX128">>, <<"MK20DX256">>, <<"STM32F042">>, <<"STM32F072">>, <<"STM32F103">>,
      <<"STM32F303">> }

AVR_PROCESSORS ==
    { <<"at90usb1286">>, <<"at90usb646">>, <<"atmega16u2">>, <<"atmega328p">>, <<"atmega32a">>,
      <<"atmega32u2">>, <<"atmega32u4">>, PyNone }

\* 'STM32' in keyboard_info['processor']
HasSTM32(s) ==
    \E i \in 1..Len(s) : s[i] \in {"STM32F042", "STM32F072", "STM32F103", "STM32F303"}

\* Processor rules that keep the processor and the bootloader the record
\* already names.
ArmProcessorRulesKeeping(info, rules) ==
    LET processor == Get(rules, <<"MCU">>, <<"unknown">>)
        given     == Get(rules, <<"BOOTLOADER">>, <<"unknown">>)
        bootloader == IF given # <<"unknown">> THEN given
                      ELSE IF HasSTM32(processor) THEN <<"stm32-dfu">>
                      ELSE IF Get(info, "manufacturer", PyNone) = <<"Input", "Club">>
                      THEN <<"kiibohd-dfu">>
                      ELSE given
        base == Put(Put(Put(Put(info, "processor_type", <<"arm">>),
                            "bootloader", Get(info, "bootloader", bootloader)),
                        "processor", Get(info, "processor", processor)),
                    "protocol", <<"ChibiOS">>)
    IN  IF HasSTM32(processor) THEN Put(base, "platform", <<"STM32">>)
        ELSE IF <<"MCU_SERIES">> \in DOMAIN rules
        THEN Put(base, "platform", rules[<<"MCU_SERIES">>])
        ELSE IF <<"ARM_ATSAM">> \in DOMAIN rules
        THEN Put(Put(base, "platform", <<"ARM_ATSAM">>), "protocol", <<"ATSAM">>)
        ELSE base

\* arm_processor_rules(keyboard_info, rules_mk)
ArmProcessorRules(info, rules) ==
    LET processor == Get(rules, <<"MCU">>, <<"unknown">>)
        given     == Get(rules, <<"BOOTLOADER">>, <<"unknown">>)
        bootloader == IF given # <<"unknown">> THEN given
                      ELSE IF HasSTM32(processor) THEN <<"stm32-dfu">>
                      ELSE IF Get(info, "manufacturer", PyNone) = <<"Input", "Club">>
                      THEN <<"kiibohd-dfu">>
                      ELSE given
        base == Put(Put(Put(Put(info, "processor_type", <<"arm">>), "bootloader", bootloader),
                        "processor", processor), "protocol", <<"ChibiOS">>)
    IN  IF HasSTM32(processor) THEN Put(base, "platform", <<"STM32">>)
        ELSE IF <<"MCU_SERIES">> \in DOMAIN rules
        THEN Put(base, "platform", rules[<<"MCU_SERIES">>])
        ELSE IF <<"ARM_ATSAM">> \in DOMAIN rules
        THEN Put(Put(base, "platform", <<"ARM_ATSAM">>), "protocol", <<"ATSAM">>)
        ELSE base

\* avr_processor_rules(keyboard_info, rules_mk)
AvrProcessorRules(info, rules) ==
    Put(Put(Put(Put(Put(info, "processor_type", <<"avr">>),
                    "bootloader", Get(rules, <<"BOOTLOADER">>, <<"atmel-dfu">>)),
                "platform", Get(rules, <<"ARCH">>, <<"unknown">>)),
            "processor", Get(rules, <<"MCU">>, <<"unknown">>)),
        "protocol", IF Get(rules, <<"MCU">>, PyNone) \in {<<"atmega32a">>, <<"atmega328p">>}
                    THEN <<"V-USB">> ELSE <<"LUFA">>)

\* The rules of an unknown board that keep the processor rules.mk names.
UnknownProcessorRulesNamed(info, rules) ==
    Put(Put(Put(Put(Put(info, "bootloader", <<"unknown">>), "platform", <<"unknown">>),
                "processor", Get(rules, <<"MCU">>, <<"unknown">>)),
            "processor_type", <<"unknown">>),
        "protocol", <<"unknown">>)

\* unknown_processor_rules(keyboard_info, rules_mk)
UnknownProcessorRules(info, rules) ==
    Put(Put(Put(Put(Put(info, "bootloader", <<"unknown">>), "platform", <<"unknown">>),
                "processor", <<"unknown">>), "processor_type", <<"unknown">>),
        "protocol", <<"unknown">>)

\* ':'.join((vendor_id, product_id, device_ver)), each 'unknown' when missing
Identifier(info) ==
    [join |-> ":", parts |-> << Get(info, "vendor_id", <<"unknown">>),
                                Get(info, "product_id", <<"unknown">>),
                                Get(info, "device_ver", <<"unknown">>) >>]

\* The branches with a missing MCU taken for an unknown one.
ProcessorRulesNoneUnknown(info, rules, keyboard, log) ==
    IF Get(rules, <<"MCU">>, PyNone) \in ARM_PROCESSORS
    THEN [info |-> ArmProcessorRules(info, rules), log |-> log]
    ELSE IF Get(rules, <<"MCU">>, PyNone) \in AVR_PROCESSORS \ {PyNone}
    THEN [info |-> AvrProcessorRules(info, rules), log |-> log]
    ELSE [info |-> UnknownProcessorRules(info, rules),
          log  |-> LogWarning(log, [kind |-> "Unknown MCU", keyboard |-> keyboard,
                                    mcu |-> Get(rules, <<"MCU">>, PyNone)])]

\* `mcu = rules_mk.get('MCU')` and the three branches on it
ProcessorRules(info, rules, keyboard, log) ==
    IF Get(rules, <<"MCU">>, PyNone) \in ARM_PROCESSORS
    THEN [info |-> ArmProcessorRules(info, rules), log |-> log]
    ELSE IF Get(rules, <<"MCU">>, PyNone) \in AVR_PROCESSORS
    THEN [info |-> AvrProcessorRules(info, rules), log |-> log]
    ELSE [info |-> UnknownProcessorRules(info, rules),
          log  |-> LogWarning(log, [kind |-> "Unknown MCU", keyboard |-> keyboard,
                                    mcu |-> Get(rules, <<"MCU">>, PyNone)])]

\* keyboard_info['identifier'] = ...
WithIdentifier(r) == [info |-> Put(r.info, "identifier", Identifier(r.info)), log |-> r.log]

\* Lines 572 to 586 of process_keyboard.
Classify(info, rules, keyboard, log) == WithIdentifier(ProcessorRules(info, rules, keyboard, log))

\* str(e) of the IsADirectoryError open() raises on a readme.md that is a directory
IsADirectoryMsg(dir) ==
    CASE dir = <<"kb">> -> "[Errno 21] Is a directory: 'qmk_firmware/keyboards/kb/readme.md'"
      [] dir = <<"kb", "a">> -> "[Errno 21] Is a directory: 'qmk_firmware/keyboards/kb/a/readme.md'"
      [] dir = <<"kb", "b">> -> "[Errno 21] Is a directory: 'qmk_firmware/keyboards/kb/b/readme.md'"

\* The text of the readme.md of a directory.
ReadmeText(dir) == <<"#", dir[Len(dir)]>>

\* 'qmk_api_kb_%s_readme' % (keyboard)
ReadmeKey(keyboard) == <<"qmk_api_kb_%s_readme", keyboard>>

\* 'qmk_api_kb_%s' % (keyboard)
KbKey(keyboard) == <<"qmk_api_kb_%s", keyboard>>

\* store_keyboard_readme(keyboard_info): st is redis, the last readme.md on
\* the way down to the keyboard wins.
StoreKeyboardReadme(t, info, st, log) ==
    LET keyboard == info["keyboard_folder"]
        found    == SelectSeq(Prefixes(SplitPath(keyboard)), LAMBDA d : d \in DOMAIN t.readme)
    IN  IF found = <<>>
        THEN [exc |-> NoExc, info |-> info, st |-> st, wrote |-> FALSE,
              log |-> LogWarning(log, [kind |-> "does not have a readme.md.",
                                       keyboard |-> keyboard])]
        ELSE IF t.readme[found[Len(found)]] = "dir"
        THEN [exc |-> Exc("IsADirectoryError", IsADirectoryMsg(found[Len(found)])),
              info |-> info, st |-> st, wrote |-> FALSE, log |-> log]
        ELSE [exc |-> NoExc, info |-> Put(info, "readme", TRUE),
              st |-> Put(st, ReadmeKey(keyboard), ReadmeText(found[Len(found)])),
              wrote |-> TRUE, log |-> log]

\* json.dumps(keyboard_info): the document holds the records as they are at
\* the time of the call.
Json(info, objs) ==
    [info EXCEPT !["layouts"] = [n \in DOMAIN info["layouts"] |-> objs[info["layouts"][n]]]]

(***************************************************************************)
(* The trees.  Each keyboard directory is one of a few profiles, each      *)
(* built around one feature of process_keyboard; the folder kb above the   *)
(* two keyboards is one of four.                                           *)
(***************************************************************************)
NoFile == [kind |-> "none"]

\* The list of an info.json layout: n keys of width w in one row.
ManifestKeys(w, n) == [i \in 1..n |-> [x |-> i - 1, y |-> 0, w |-> w, label |-> "J"]]

WidthWord(w) == CASE w = 2 -> "2" [] w = 3 -> "3" [] w = 4 -> "4" [] OTHER -> "5"

InfoOk(w) ==
    [kind |-> "dict",
     fields |-> [manufacturer |-> <<"Input", "Club">>, vendor_id |-> <<"0x1234">>,
                 url |-> <<"http://kb", WidthWord(w)>>],
     layouts |-> << [name |-> "LAYOUT", layout |-> ManifestKeys(w, 2)],
                    [name |-> "LAYOUT_x", layout |-> ManifestKeys(w, 1)] >>]

InfoMismatch ==
    [kind |-> "dict",
     fields |-> [processor |-> <<"at90usb1286">>, maintainer |-> <<"me">>,
                 bootloader |-> <<"halfkay">>],
     layouts |-> << [name |-> "LAYOUT", layout |-> ManifestKeys(5, 3)] >>]

InfoNoLayout ==
    [kind |-> "dict", fields |-> EmptyDict, layouts |-> << [name |-> "LAYOUT"] >>]

InfoInvalid == [kind |-> "invalid"]

InfoList == [kind |-> "list"]

OtherKeyboard(k) == IF k = KbA THEN KbB ELSE KbA

\* The width the keys of the keyboard's own info.json have.
OwnWidth(k) == IF k = KbA THEN 3 ELSE 4

UsbIds == << <<"#define", "VENDOR_ID", "0xc1ed">>, <<"#define", "PRODUCT_ID", "0X2328">> >>

Atmega == << <<"MCU", "=", "atmega32u4">> >>

Plain ==
    [rules |-> Atmega, config |-> UsbIds, info |-> NoFile, readme |-> "file", header |-> FALSE]

KeyboardProfiles(k) ==
    { Plain,
      [rules |-> <<>>, config |-> <<>>, info |-> InfoOk(OwnWidth(k)), readme |-> "file",
       header |-> TRUE],
      [rules |-> << <<"MCU", "=", "STM32F303">> >>,
       config |-> << <<"#define", "MANUFACTURER">>, <<"#define", "DEVICE_VER", "0x0001">> >>,
       info |-> InfoMismatch, readme |-> "none", header |-> FALSE],
      [Plain EXCEPT !.info = InfoNoLayout],
      [Plain EXCEPT !.rules = << <<"SRC", "+=", "a.c", "+=", "b.c">> >>],
      [Plain EXCEPT !.config = << <<"#define", "VENDOR_ID">> >>],
      [Plain EXCEPT !.readme = "dir"],
      [rules |-> << <<"MCU", "=", "foo">>, <<"LAYOUTS", "=", "a", "ortho">> >>,
       config |-> << <<"#define">> >>, info |-> InfoInvalid, readme |-> "none",
       header |-> TRUE],
      [Plain EXCEPT !.rules = << <<"DEFAULT_FOLDER", "=", OtherKeyboard(k)[1]>> >>],
      [Plain EXCEPT !.rules = << <<"MCU", "=", "STM32F303">>, <<"BOOTLOADER", "=", "caterina">> >>,
                    !.info = InfoMismatch] }

ParentProfiles ==
    { [header |-> TRUE, info |-> NoFile, readme |-> "file"],
      [header |-> TRUE, info |-> InfoOk(2), readme |-> "none"],
      [header |-> FALSE, info |-> NoFile, readme |-> "none"],
      [header |-> TRUE, info |-> InfoList, readme |-> "dir"] }

\* The directory of a keyboard or of the folder above, with its profile.
DirProfile(dir, pa, pb, parent) ==
    IF dir = <<"kb">> THEN parent ELSE IF dir = SplitPath(KbA) THEN pa ELSE pb

TreeDirs == { <<"kb">>, SplitPath(KbA), SplitPath(KbB) }

MakeTree(order, pa, pb, parent) ==
    [order   |-> order,
     version |-> <<"0.6.1">>,
     rules   |-> [k \in Keyboards |-> IF k = KbA THEN pa.rules ELSE pb.rules],
     config  |-> [k \in Keyboards |-> IF k = KbA THEN pa.config ELSE pb.config],
     headers |-> {d \in TreeDirs : DirProfile(d, pa, pb, parent).header},
     info    |-> [d \in {e \in TreeDirs : DirProfile(e, pa, pb, parent).info # NoFile} |->
                     DirProfile(d, pa, pb, parent).info],
     readme  |-> [d \in {e \in TreeDirs : DirProfile(e, pa, pb, parent).readme # "none"} |->
                     DirProfile(d, pa, pb, parent).readme]]

Orders == { <<KbA, KbB>>, <<KbB, KbA>> }

Trees ==
    {MakeTree(o, pa, pb, parent) : o \in Orders, pa \in KeyboardProfiles(KbA),
                                   pb \in KeyboardProfiles(KbB), parent \in ParentProfiles}
    \cup {MakeTree(<<KbA>>, pa, Plain, parent) : pa \in KeyboardProfiles(KbA),
                                                 parent \in ParentProfiles}

(***************************************************************************)
(* update_kb_redis and process_keyboard, statement by statement.           *)
(***************************************************************************)
otherVars == <<rulesVars, configVars, keymapVars, unitVars>>

Init ==
    /\ RulesIdle
    /\ ConfigIdle
    /\ KeymapIdle
    /\ LayoutsIdle
    /\ MergeIdle
    /\ ClassifyIdle
    /\ MoreIdle
    /\ error_log = <<>>
    /\ tree \in Trees
    /\ run = 0
    /\ pc = "idle"
    /\ kb_i = 0
    /\ trace = [k \in Keyboards |-> <<>>]
    /\ caught = [k \in Keyboards |-> NoExc]
    /\ cache = EmptyDict
    /\ heap = EmptyDict
    /\ fl_calls = <<>>
    /\ kb_list = <<>>
    /\ usb_list = EmptyDict
    /\ kb_all = EmptyDict
    /\ keyboard_info = EmptyDict
    /\ kb_rules = EmptyDict
    /\ store = EmptyDict
    /\ written_in = EmptyDict
    /\ prev_store = EmptyDict

\* `keyboard`, the loop variable.
Keyboard == tree.order[kb_i]

\* The statements of process_keyboard in the order of the text.
StageAfter(stage) ==
    CASE stage = "build" -> "layouts"
      [] stage = "layouts" -> "merge"
      [] stage = "merge" -> "config"
      [] stage = "config" -> "classify"
      [] stage = "classify" -> "readme"

\* The name the spec gives to the stage a statement group completes.
StageName(stage) ==
    CASE stage = "build" -> "INIT"
      [] stage = "layouts" -> "LAYOUTS_DISCOVERED"
      [] stage = "merge" -> "MANIFEST_MERGED"
      [] stage = "config" -> "CONFIG_RESOLVED"
      [] stage = "classify" -> "CLASSIFIED"
      [] stage = "publish" -> "PUBLISHED"

\* A loop that ends with the first keyboard.
AfterKeyboardStop(i, order) == "set_keyboards"

\* `for keyboard in list_keyboards()`: the next keyboard, or the statement
\* after the loop.
AfterKeyboard(i, order) == IF i < Len(order) THEN "build" ELSE "set_keyboards"

\* An exception handler that logs nothing.
HandlerSilent(log, keyboard, e) == log

\* `except Exception as e: log_error('Uncaught exception while processing
\* keyboard %s! %s: %s' % (keyboard, e.__class__.__name__, str(e)))`
Handler(log, keyboard, e) ==
    LogError(log, [kind |-> "Uncaught exception while processing keyboard",
                   keyboard |-> keyboard, cls |-> e.cls, msg |-> e.msg])

\* process_keyboard raised e after it logged up to log: the handler runs and
\* the loop goes on.
Raised(log, e) ==
    /\ error_log' = Handler(log, Keyboard, e)
    /\ caught' = [caught EXCEPT ![Keyboard] = e]
    /\ trace' = [trace EXCEPT ![Keyboard] = Append(@, "FAILED")]
    /\ pc' = AfterKeyboard(kb_i, tree.order)
    /\ kb_i' = kb_i + 1
    /\ kb_rules' = EmptyDict

\* A stage of process_keyboard came to its end.
Passed(stage) ==
    /\ trace' = [trace EXCEPT ![Keyboard] = Append(@, StageName(stage))]
    /\ pc' = IF stage = "publish" THEN AfterKeyboard(kb_i, tree.order) ELSE StageAfter(stage)
    /\ kb_i' = IF stage = "publish" THEN kb_i + 1 ELSE kb_i
    /\ UNCHANGED caught

\* redis after qmk_redis.set(key, value) in the current run.
Written(w, keys, r) == [k \in (DOMAIN w) \cup keys |-> IF k \in keys THEN r ELSE w[k]]

\* Lines 605 to 624: the start of the job up to the loop.
BeginRun ==
    /\ pc = "idle"
    /\ run < MaxRuns
    /\ run' = run + 1
    /\ error_log' = <<>>
    /\ prev_store' = store
    /\ store' = Put(store, <<"qmk_needs_update">>, FALSE)
    /\ written_in' = Written(written_in, {<<"qmk_needs_update">>}, run + 1)
    /\ kb_list' = <<>>
    /\ usb_list' = EmptyDict
    /\ kb_all' = [last_updated |-> run + 1, keyboards |-> EmptyDict]
    /\ kb_i' = 1
    /\ pc' = AfterKeyboard(0, tree.order)
    /\ trace' = [k \in Keyboards |-> <<>>]
    /\ caught' = [k \in Keyboards |-> NoExc]
    /\ UNCHANGED <<tree, cache, heap, fl_calls, keyboard_info, kb_rules, otherVars>>

\* Line 555: keyboard_info = build_keyboard_info(keyboard)
Build ==
    /\ pc = "build"
    /\ keyboard_info' = BuildKeyboardInfo(Keyboard)
    /\ Passed("build")
    /\ UNCHANGED <<error_log, tree, run, cache, heap, fl_calls, kb_list, usb_list, kb_all,
                   kb_rules, store, written_in, prev_store, otherVars>>

\* The calls of find_layouts one stage made, stamped with the run.
Stamped(calls) ==
    [i \in 1..Len(calls) |-> [run |-> run, file |-> calls[i].file, read |-> calls[i].read]]

\* find_all_layouts returned or raised r.
LayoutsDone(r) ==
    /\ cache' = r.mem.cache
    /\ heap' = r.mem.heap
    /\ fl_calls' = fl_calls \o Stamped(r.mem.calls)
    /\ IF r.exc # NoExc
       THEN Raised(r.log, r.exc) /\ keyboard_info' = EmptyDict
       ELSE /\ error_log' = r.log
            /\ keyboard_info' = [keyboard_info EXCEPT !.layouts = WithoutKc(r.layouts)]
            /\ kb_rules' = kb_rules
            /\ Passed("layouts")

\* Lines 557 to 559: the layouts of find_all_layouts, LAYOUT_kc* left out.
Layouts ==
    /\ pc = "layouts"
    /\ LayoutsDone(FindAllLayouts(tree, Keyboard,
                       [cache |-> cache, heap |-> heap, calls |-> <<>>], error_log))
    /\ UNCHANGED <<tree, run, kb_list, usb_list, kb_all, store, written_in, prev_store,
                   otherVars>>

\* The loop over the files f that find_info_json returned, unless it raised.
MergeFiles(f) ==
    IF f.exc # NoExc
    THEN [exc |-> f.exc, info |-> keyboard_info, objs |-> heap, log |-> error_log]
    ELSE MergeAll(tree, f.files, keyboard_info, heap, error_log)

\* The merges returned or raised r.
MergeDone(r) ==
    /\ heap' = r.objs
    /\ IF r.exc # NoExc
       THEN Raised(r.log, r.exc) /\ keyboard_info' = EmptyDict
       ELSE /\ error_log' = r.log
            /\ keyboard_info' = r.info
            /\ kb_rules' = kb_rules
            /\ Passed("merge")

\* Lines 561 to 563: every info.json of find_info_json merged in turn.
Merge ==
    /\ pc = "merge"
    /\ MergeDone(MergeFiles(FindInfoJson(tree, Keyboard)))
    /\ UNCHANGED <<tree, run, cache, fl_calls, kb_list, usb_list, kb_all, store, written_in,
                   prev_store, otherVars>>

\* Lines 568 and 569: build_usb_entry returned or raised u.
UsbBuilt(log, rules, u) ==
    IF u.exc # NoExc
    THEN Raised(log, u.exc) /\ keyboard_info' = EmptyDict /\ usb_list' = usb_list
    ELSE /\ error_log' = log
         /\ keyboard_info' = u.info
         /\ kb_rules' = rules
         /\ usb_list' = InsertUsbEntry(u.usb, Keyboard, u.usb_entry)
         /\ Passed("config")

\* Lines 566 and 567: parse_config_h gave c and parse_rules_mk gave m.
ConfigParsed(c, m) ==
    IF c.exc # NoExc
    THEN Raised(c.log, c.exc) /\ keyboard_info' = EmptyDict /\ usb_list' = usb_list
    ELSE UsbBuilt(c.log, m.map, BuildUsbEntry(keyboard_info, c.map, usb_list))

\* Lines 566 to 569: config.h, rules.mk, the USB entry and its place in usb_list.
Config ==
    /\ pc = "config"
    /\ ConfigParsed(ParseConfigH(tree, Keyboard, error_log),
                    ParseRulesMk(RulesFiles(tree), Keyboard))
    /\ UNCHANGED <<tree, run, cache, heap, fl_calls, kb_list, kb_all, store, written_in,
                   prev_store, otherVars>>

\* The processor rules and the identifier gave r.
ClassifyDone(r) ==
    /\ error_log' = r.log
    /\ keyboard_info' = r.info

\* Lines 572 to 586: the processor rules and the identifier.
Classified ==
    /\ pc = "classify"
    /\ ClassifyDone(Classify(keyboard_info, kb_rules, Keyboard, error_log))
    /\ Passed("classify")
    /\ UNCHANGED <<tree, run, cache, heap, fl_calls, kb_list, usb_list, kb_all, kb_rules,
                   store, written_in, prev_store, otherVars>>

\* store_keyboard_readme returned or raised r: the key of the readme is in
\* redis and keyboard_info holds the readme flag, or the warning is logged.
ReadmeDone(r) ==
    IF r.exc # NoExc
    THEN /\ Raised(r.log, r.exc)
         /\ keyboard_info' = EmptyDict
         /\ UNCHANGED <<store, written_in>>
    ELSE /\ error_log' = r.log
         /\ keyboard_info' = r.info
         /\ store' = r.st
         /\ written_in' = Written(written_in,
               IF r.wrote THEN {ReadmeKey(Keyboard)} ELSE {}, run)
         /\ pc' = "publish"
         /\ UNCHANGED <<trace, caught, kb_i, kb_rules>>

\* Line 589: store_keyboard_readme(keyboard_info), with the
\* qmk_redis.set('qmk_api_kb_%s_readme') of line 522.
Readme ==
    /\ pc = "readme"
    /\ ReadmeDone(StoreKeyboardReadme(tree, keyboard_info, store, error_log))
    /\ UNCHANGED <<tree, run, cache, heap, fl_calls, kb_list, usb_list, kb_all, prev_store,
                   otherVars>>

\* Lines 592 to 594: qmk_redis.set('qmk_api_kb_%s'), kb_list and kb_all, and
\* the return of process_keyboard.
Publish ==
    /\ pc = "publish"
    /\ store' = Put(store, KbKey(Keyboard), Json(keyboard_info, heap))
    /\ written_in' = Written(written_in, {KbKey(Keyboard)}, run)
    /\ kb_list' = Append(kb_list, Keyboard)
    /\ kb_all' = [kb_all EXCEPT !.keyboards = Put(@, Keyboard, keyboard_info)]
    /\ kb_rules' = EmptyDict
    /\ keyboard_info' = EmptyDict
    /\ Passed("publish")
    /\ UNCHANGED <<error_log, tree, run, cache, heap, fl_calls, usb_list, prev_store,
                   otherVars>>

KeyboardsKey == <<"qmk_api_keyboards">>

KbAllKey == <<"qmk_api_kb_all">>

UsbListKey == <<"qmk_api_usb_list">>

LastUpdatedKey == <<"qmk_api_last_updated">>

ErrorLogKey == <<"qmk_api_update_error_log">>

\* json.dumps(kb_all)
JsonAll(all, objs) ==
    [last_updated |-> all.last_updated,
     keyboards |-> [k \in DOMAIN all.keyboards |-> Json(all.keyboards[k], objs)]]

\* git_hash(): the content of qmk_firmware/version.txt
GitHash(t) == t.version

\* What the writes after the loop leave alone.
afterLoopVars ==
    <<tree, run, kb_i, trace, caught, cache, heap, fl_calls, kb_list, usb_list, kb_all,
      keyboard_info, kb_rules, prev_store, error_log, otherVars>>

\* Line 635: qmk_redis.set('qmk_api_keyboards', kb_list)
SetKeyboards ==
    /\ pc = "set_keyboards"
    /\ store' = Put(store, KeyboardsKey, kb_list)
    /\ written_in' = Written(written_in, {KeyboardsKey}, run)
    /\ pc' = "set_kb_all"
    /\ UNCHANGED afterLoopVars

\* Line 636: qmk_redis.set('qmk_api_kb_all', kb_all)
SetKbAll ==
    /\ pc = "set_kb_all"
    /\ store' = Put(store, KbAllKey, JsonAll(kb_all, heap))
    /\ written_in' = Written(written_in, {KbAllKey}, run)
    /\ pc' = "set_usb_list"
    /\ UNCHANGED afterLoopVars

\* Line 637: qmk_redis.set('qmk_api_usb_list', usb_list)
SetUsbList ==
    /\ pc = "set_usb_list"
    /\ store' = Put(store, UsbListKey, usb_list)
    /\ written_in' = Written(written_in, {UsbListKey}, run)
    /\ pc' = "set_last_updated"
    /\ UNCHANGED afterLoopVars

\* Line 638: qmk_redis.set('qmk_api_last_updated', {...}); the clock is the
\* number of the run.
SetLastUpdated ==
    /\ pc = "set_last_updated"
    /\ store' = Put(store, LastUpdatedKey, [git_hash |-> GitHash(tree), last_updated |-> run])
    /\ written_in' = Written(written_in, {LastUpdatedKey}, run)
    /\ pc' = "set_error_log"
    /\ UNCHANGED afterLoopVars

\* Lines 639 to 644: qmk_redis.set('qmk_api_update_error_log', error_log) and
\* the return.
SetErrorLog ==
    /\ pc = "set_error_log"
    /\ store' = Put(store, ErrorLogKey, error_log)
    /\ written_in' = Written(written_in, {ErrorLogKey}, run)
    /\ pc' = "idle"
    /\ UNCHANGED afterLoopVars

Next ==
    \/ BeginRun
    \/ Build
    \/ Layouts
    \/ Merge
    \/ Config
    \/ Classified
    \/ Readme
    \/ Publish
    \/ SetKeyboards
    \/ SetKbAll
    \/ SetUsbList
    \/ SetLastUpdated
    \/ SetErrorLog

Spec == Init /\ [][Next]_vars

(***************************************************************************)
(* Properties of update_kb_redis.                                          *)
(***************************************************************************)
\* The last stage a keyboard reached in this run.
Stage(k) == IF trace[k] = <<>> THEN "NONE" ELSE trace[k][Len(trace[k])]

\* The stages a keyboard completed in this run.
Completed(k) ==
    IF Stage(k) = "FAILED" THEN SubSeq(trace[k], 1, Len(trace[k]) - 1) ELSE trace[k]

\* The loop over list_keyboards() is over in the current run.
LoopOver ==
    \/ pc \in {"set_keyboards", "set_kb_all", "set_usb_list", "set_last_updated", "set_error_log"}
    \/ pc = "idle" /\ run > 0

\* The run that wrote a key of the store last, 0 for a key never written.
RunOf(key) == IF key \in DOMAIN written_in THEN written_in[key] ELSE 0

\* The key was written by the current run.
WrittenNow(key) == run > 0 /\ RunOf(key) = run

\* The entries of the uncaught exception handler for a keyboard.
UncaughtFor(log, k) ==
    {i \in 1..Len(log) :
        /\ log[i].message.kind = "Uncaught exception while processing keyboard"
        /\ log[i].message.keyboard = k}

\* C1: a keyboard for which process_keyboard raised is neither in kb_list nor
\* in kb_all['keyboards'], nor in the documents written from them; the error
\* log holds exactly one entry of the handler for it, an error with the class
\* name and the message of the exception; a keyboard that did not raise has
\* no such entry; and when the loop is over every listed keyboard has failed
\* or is published in this run.
C1_FailureIsolated ==
    \A k \in Range(tree.order) :
        /\ Stage(k) = "FAILED" =>
              /\ k \notin Range(kb_list)
              /\ k \notin DOMAIN kb_all.keyboards
              /\ caught[k].cls # ""
              /\ Cardinality(UncaughtFor(error_log, k)) = 1
              /\ \A i \in UncaughtFor(error_log, k) :
                    error_log[i] =
                       [severity |-> "error",
                        message  |-> [kind |-> "Uncaught exception while processing keyboard",
                                      keyboard |-> k, cls |-> caught[k].cls,
                                      msg |-> caught[k].msg]]
              /\ WrittenNow(KeyboardsKey) => k \notin Range(store[KeyboardsKey])
              /\ WrittenNow(KbAllKey) => k \notin DOMAIN store[KbAllKey].keyboards
              /\ WrittenNow(ErrorLogKey) =>
                    Cardinality(UncaughtFor(store[ErrorLogKey], k)) = 1
        /\ Stage(k) # "FAILED" => UncaughtFor(error_log, k) = {}
        /\ LoopOver =>
              /\ Stage(k) \in {"FAILED", "PUBLISHED"}
              /\ Stage(k) = "PUBLISHED" =>
                    /\ k \in Range(kb_list)
                    /\ k \in DOMAIN kb_all.keyboards
                    /\ WrittenNow(KbKey(k))
              /\ WrittenNow(KeyboardsKey) /\ Stage(k) = "PUBLISHED" =>
                    k \in Range(store[KeyboardsKey])
              /\ WrittenNow(KbAllKey) /\ Stage(k) = "PUBLISHED" =>
                    k \in DOMAIN store[KbAllKey].keyboards

\* The first listed keyboard failed, the one after it is published, and the
\* run has written the keyboard list, the catalog and the error log.
C1_Witness ==
    /\ pc = "idle"
    /\ run = 1
    /\ Len(tree.order) = 2
    /\ Stage(tree.order[1]) = "FAILED"
    /\ Stage(tree.order[2]) = "PUBLISHED"
    /\ store[KeyboardsKey] = <<tree.order[2]>>
    /\ DOMAIN store[KbAllKey].keyboards = {tree.order[2]}
    /\ Cardinality(UncaughtFor(store[ErrorLogKey], tree.order[1])) = 1

\* process_keyboard's layout stages for a keyboard in a process that has
\* parsed nothing yet, after find_all_layouts returned or raised r.
AloneMerged(t, k, r) ==
    IF r.exc # NoExc THEN EmptyDict
    ELSE LET f == FindInfoJson(t, k)
             info == [BuildKeyboardInfo(k) EXCEPT !.layouts = WithoutKc(r.layouts)]
             m == IF f.exc # NoExc THEN [info |-> info, objs |-> r.mem.heap]
                  ELSE MergeAll(t, f.files, info, r.mem.heap, <<>>)
         IN  Json(m.info, m.objs).layouts

\* The layouts of a keyboard processed alone.
AloneLayouts(t, k) ==
    AloneMerged(t, k, FindAllLayouts(t, k,
                         [cache |-> EmptyDict, heap |-> EmptyDict, calls |-> <<>>], <<>>))

\* C2: in the first run of a process, the layouts written for a keyboard,
\* under its own key and in the catalog, are the layouts the keyboard gets
\* when it is processed alone, whatever was processed before it.
C2_LayoutsAsAlone ==
    \A k \in Range(tree.order) :
        (run = 1 /\ WrittenNow(KbKey(k))) =>
            /\ store[KbKey(k)].layouts = AloneLayouts(tree, k)
            /\ WrittenNow(KbAllKey) =>
                  store[KbAllKey].keyboards[k].layouts = AloneLayouts(tree, k)

\* The content of the store that a second run on the same tree is to repeat.
Content(st) ==
    [catalog   |-> st[KbAllKey].keyboards,
     keyboards |-> [k \in {j \in Keyboards : KbKey(j) \in DOMAIN st} |-> st[KbKey(k)]],
     usb       |-> st[UsbListKey]]

\* C3: when a run other than the first of the process has returned, the
\* catalog, the documents of the keyboards and the USB registry in the store
\* are those the run before left there.
C3_SecondRunSame ==
    (pc = "idle" /\ run >= 2) => Content(store) = Content(prev_store)

\* The aggregate keys in the order update_kb_redis writes them.
AggregateKeys == <<KeyboardsKey, KbAllKey, UsbListKey, LastUpdatedKey, ErrorLogKey>>

\* Every listed keyboard has been processed to the end or has failed.
AllProcessed == \A k \in Range(tree.order) : Stage(k) \in {"FAILED", "PUBLISHED"}

\* C4 as claimed: the aggregate keys are written only after every listed
\* keyboard was processed or failed, and at every moment the aggregate keys
\* present in the store are all of the same run.
C4_PublishedAtomically ==
    /\ \A i \in DOMAIN AggregateKeys : WrittenNow(AggregateKeys[i]) => AllProcessed
    /\ \A i, j \in DOMAIN AggregateKeys :
          (RunOf(AggregateKeys[i]) >= 1 /\ RunOf(AggregateKeys[j]) >= 1) =>
              RunOf(AggregateKeys[i]) = RunOf(AggregateKeys[j])

\* C4: the aggregate keys are written only after the loop, when every listed
\* keyboard was processed or failed; they are written one at a time in the
\* order keyboard list, catalog, USB registry, last-updated, error log, so
\* that a key of the current run stands next to later keys of the run before;
\* when the run has returned all five are of that run.
C4_PublishedAfterLoopInOrder ==
    /\ \A i \in DOMAIN AggregateKeys :
          WrittenNow(AggregateKeys[i]) => (LoopOver /\ AllProcessed)
    /\ \A i, j \in DOMAIN AggregateKeys :
          (i < j /\ WrittenNow(AggregateKeys[j])) => WrittenNow(AggregateKeys[i])
    /\ \A i \in DOMAIN AggregateKeys :
          run > 0 => RunOf(AggregateKeys[i]) \in {run - 1, run}
    /\ (pc = "idle" /\ run > 0) => \A i \in DOMAIN AggregateKeys : WrittenNow(AggregateKeys[i])

\* The second run has written the keyboard list while the catalog, the USB
\* registry and the error log in the store are those of the first run.
C4_Witness ==
    /\ run = 2
    /\ pc = "set_kb_all"
    /\ RunOf(KeyboardsKey) = 2
    /\ RunOf(KbAllKey) = 1
    /\ RunOf(UsbListKey) = 1
    /\ RunOf(ErrorLogKey) = 1
    /\ AllProcessed

\* The sequence s is the beginning of t.
IsPrefix(s, t) == Len(s) <= Len(t) /\ SubSeq(t, 1, Len(s)) = s

\* The keyboard has an entry in usb_list.
InUsbList(k) ==
    \E v \in DOMAIN usb_list : \E p \in DOMAIN usb_list[v] : k \in DOMAIN usb_list[v][p]

\* The keyboard is in what the run gives out: kb_list, kb_all, its own key.
Published(k) ==
    \/ k \in Range(kb_list)
    \/ k \in DOMAIN kb_all.keyboards
    \/ WrittenNow(KbKey(k))

\* Every keyboard completes its stages in the order of stages, is published
\* only with all of them completed, and is not published once it failed.
StagesFollow(stages) ==
    run > 0 =>
        \A k \in Keyboards :
            /\ IsPrefix(Completed(k), stages)
            /\ Published(k) => Completed(k) = stages
            /\ Stage(k) = "FAILED" => ~ Published(k)

\* C5 as claimed: the stages are completed in the order INIT,
\* CONFIG_RESOLVED, LAYOUTS_DISCOVERED, MANIFEST_MERGED, CLASSIFIED,
\* KEYMAPS_ENUMERATED, PUBLISHED; a keyboard is published only after all of
\* them; a failed keyboard is not published.
C5_StagesAsSpecified ==
    StagesFollow(<<"INIT", "CONFIG_RESOLVED", "LAYOUTS_DISCOVERED", "MANIFEST_MERGED",
                   "CLASSIFIED", "KEYMAPS_ENUMERATED", "PUBLISHED">>)

\* C6: of the find_layouts calls for one file in one run, the first reads
\* and parses the file and the later ones do not.
C6_MemoizedPerRun ==
    \A j \in DOMAIN fl_calls :
        fl_calls[j].read <=>
            ~ \E i \in 1..(j - 1) :
                  fl_calls[i].run = fl_calls[j].run /\ fl_calls[i].file = fl_calls[j].file

(***************************************************************************)
(* find_layouts on its own: headers written from a few items (function     *)
(* macros on one line or on several, with the closing parenthesis on its   *)
(* own line or after the last argument, other #defines, other lines), read  *)
(* as the lines they are written on.                                        *)
(***************************************************************************)
MaxHeaderItems == 3

HeaderItemSet ==
    { [kind |-> "macro", name |-> "LAYOUT", rows |-> << <<"k0", "k1">> >>,
       style |-> "oneline", text |-> ""],
      [kind |-> "macro", name |-> "LAYOUT", rows |-> << <<"k0", "k1">>, <<"k2">> >>,
       style |-> "rows", text |-> ""],
      [kind |-> "macro", name |-> "LAYOUT_a", rows |-> << <<"k0">>, <<"k1">> >>,
       style |-> "hang", text |-> ""],
      [kind |-> "macro", name |-> "LAYOUT", rows |-> <<>>,
       style |-> "oneline", text |-> ""],
      [kind |-> "macro", name |-> "XLAYOUT", rows |-> << <<"k0">> >>,
       style |-> "rows", text |-> ""],
      [kind |-> "macro", name |-> "KEYMAP", rows |-> << <<"k0", "k1", "k2">> >>,
       style |-> "oneline", text |-> ""],
      [kind |-> "alias", name |-> "LAYOUT_all", rows |-> <<>>,
       style |-> "", text |-> "LAYOUT_a"],
      [kind |-> "alias", name |-> "KM", rows |-> <<>>,
       style |-> "", text |-> "LAYOUT_all"],
      [kind |-> "alias", name |-> "COLS", rows |-> <<>>,
       style |-> "", text |-> "2"],
      [kind |-> "other", name |-> "", rows |-> <<>>,
       style |-> "", text |-> ""] }

\* The arguments of a row as they are written: k0, k1, k2
RECURSIVE CommaSeparated(_)
CommaSeparated(args) ==
    IF Len(args) <= 1 THEN args
    ELSE <<Head(args), ",", " ">> \o CommaSeparated(Tail(args))

\* The lines a function macro is written on.
MacroLines(item) ==
    IF item.style = "oneline"
    THEN << <<"#define", " ", item.name, "(">>
            \o CommaSeparated(IF item.rows = <<>> THEN <<>> ELSE item.rows[1])
            \o <<")", " ", "{", "}">> >>
    ELSE << <<"#define", " ", item.name, "(", " ", "\\">> >>
         \o [i \in 1..Len(item.rows) |->
               <<" ", " ">> \o CommaSeparated(item.rows[i])
               \o (IF i < Len(item.rows) THEN <<",">> ELSE <<>>)
               \o (IF i = Len(item.rows) /\ item.style = "hang" THEN <<")">> ELSE <<>>)
               \o <<" ", "\\">>]
         \o (IF item.style = "hang" THEN << <<" ", " ", "{", "}">> >>
             ELSE << <<")", " ", "{", "}">> >>)

ItemLines(item) ==
    CASE item.kind = "macro" -> MacroLines(item)
      [] item.kind = "alias" -> << <<"#define", " ", item.name, " ", item.text>> >>
      [] OTHER -> << <<"#pragma", " ", "once">> >>

\* The file: the lines of its items, and the empty line after the last newline.
RECURSIVE RenderHeader(_)
RenderHeader(items) ==
    IF items = <<>> THEN << <<>> >>
    ELSE ItemLines(Head(items)) \o RenderHeader(Tail(items))

HeaderItemSeqs == UNION {[1..n -> HeaderItemSet] : n \in 1..MaxHeaderItems}

InitLayouts ==
    /\ error_log = <<>>
    /\ RulesIdle /\ ConfigIdle /\ KeymapIdle /\ RunIdle /\ MergeIdle /\ ClassifyIdle /\ MoreIdle
    /\ h_items \in HeaderItemSeqs
    /\ h_lines = RenderHeader(h_items)
    /\ h_pc = "ready"
    /\ h_result = EmptyDict

\* layouts = find_layouts(file) on a file not read before.
DoFindLayouts ==
    /\ h_pc = "ready"
    /\ h_result' = FindLayoutsIn(<<"kb">>, ParseHeader(h_lines))
    /\ h_pc' = "done"
    /\ UNCHANGED <<error_log, rulesVars, configVars, keymapVars, runVars, h_items, h_lines,
                   mergeVars, classifyVars, moreVars>>

NextLayouts == DoFindLayouts

SpecLayouts == InitLayouts /\ [][NextLayouts]_vars

\* The function macros find_layouts keeps, by their place among the items:
\* the last definition of a LAYOUT* or KEYMAP* name.
FoundMacros ==
    {i \in 1..Len(h_items) :
        /\ h_items[i].kind = "macro"
        /\ StartsWithLayout(h_items[i].name)
        /\ \A j \in (i + 1)..Len(h_items) :
              ~ (h_items[j].kind = "macro" /\ h_items[j].name = h_items[i].name)}

\* The keys of an argument list, one per argument: x counts within the row,
\* y counts the rows.
RECURSIVE ArgumentKeys(_, _)
ArgumentKeys(rows, y) ==
    IF rows = <<>> THEN <<>>
    ELSE [j \in 1..Len(Head(rows)) |-> [x |-> j - 1, y |-> y, w |-> 1, label |-> Head(rows)[j]]]
         \o ArgumentKeys(Tail(rows), y + 1)

\* The record a name is bound to in the dictionary find_layouts returned.
RecordOf(name) == h_result.records[h_result.result[name]]

\* C11: every LAYOUT*/KEYMAP* function macro found, on one line or several,
\* has a record listing one key per argument in order, x counted within the
\* row, y the row, w = 1, the argument as label, and key_count the number of
\* keys.
C11_OneKeyPerArgument ==
    h_pc = "done" =>
        \A i \in FoundMacros :
            /\ h_items[i].name \in DOMAIN h_result.result
            /\ RecordOf(h_items[i].name).layout = ArgumentKeys(h_items[i].rows, 0)
            /\ RecordOf(h_items[i].name).key_count = Len(ArgumentKeys(h_items[i].rows, 0))

\* The replacement text of the other #defines: the last text given to a name.
AliasText(name) ==
    LET last == Max({i \in 1..Len(h_items) :
                        h_items[i].kind = "alias" /\ h_items[i].name = name})
    IN  h_items[last].text

AliasNames == {h_items[i].name : i \in {j \in 1..Len(h_items) : h_items[j].kind = "alias"}}

FoundMacroNames == {h_items[i].name : i \in FoundMacros}

\* C12: an alias whose text is the name of a layout macro of the header is
\* bound to the very record of that macro, which stays in the mapping; an
\* alias whose text is the name of no macro of the header adds nothing.
C12_AliasesOfMacrosOnly ==
    h_pc = "done" =>
        \A a \in AliasNames :
            IF AliasText(a) \in FoundMacroNames
            THEN /\ a \in DOMAIN h_result.result
                 /\ AliasText(a) \in DOMAIN h_result.result
                 /\ h_result.result[a] = h_result.result[AliasText(a)]
            ELSE a \notin DOMAIN h_result.result

\* The enum blocks of the keymap file, and the member that is the SAFE_RANGE
\* sentinel: named SAFE_RANGE or given the value SAFE_RANGE.
EnumBlocks == SelectItems(k_text, "enum")

IsSentinel(m) == m.name = "SAFE_RANGE" \/ m.val = "SAFE_RANGE"

\* The member names that are listed after the sentinel wherever they are listed.
AfterSentinel ==
    {n \in UNION {{EnumBlocks[e].members[j].name : j \in 1..Len(EnumBlocks[e].members)} :
                     e \in 1..Len(EnumBlocks)} :
        \A e \in 1..Len(EnumBlocks) : \A j \in 1..Len(EnumBlocks[e].members) :
            EnumBlocks[e].members[j].name = n =>
                \E i \in 1..(j - 1) : IsSentinel(EnumBlocks[e].members[i])}

\* The layers of the keymaps array of the file that extract_keymap reads
\* (those of the first array, with a macro name in capitals).
ReadLayers(arrays) ==
    IF arrays = <<>> THEN <<>>
    ELSE SelectSeq(arrays[1].layers, LAMBDA l : IsUpperMacro(l.macro))

\* C13: populate_enums stops numbering an enum block at the SAFE_RANGE
\* sentinel member: a member listed after it receives no integer and is not
\* substituted in the layers returned.
C13_StopsAtSentinel ==
    k_pc = "returned" =>
        \A n \in AfterSentinel :
            /\ n \notin DOMAIN EnumReplacements(EnumBlocks, EmptyDict)
            /\ \A l \in Range(ReadLayers(SelectItems(k_text, "keymaps"))) :
                  n \in Range(l.args) =>
                      \E i \in 1..Len(k_result.layers) :
                          /\ k_result.layers[i] # PyNone
                          /\ n \in Range(k_result.layers[i])

\* The index a found layer is assigned to: its own when it is a number, else
\* the count of the layers before it that had none.
ResolvedIndex(found, i) ==
    IF IsDigit(found[i].idx) THEN PyInt(found[i].idx)
    ELSE Cardinality({j \in 1..(i - 1) : ~ IsDigit(found[j].idx)})

\* The layer list is dense over the resolved indexes of the found layers.
DenseOver(found, layers) ==
    IF found = <<>> THEN layers = <<>>
    ELSE /\ Len(layers) = Max({ResolvedIndex(found, i) : i \in 1..Len(found)}) + 1
         /\ \A n \in 0..(Len(layers) - 1) :
               IF \E i \in 1..Len(found) : ResolvedIndex(found, i) = n
               THEN layers[n + 1] =
                        Str(found[Max({i \in 1..Len(found) : ResolvedIndex(found, i) = n})].args)
               ELSE layers[n + 1] = PyNone

\* C14: the layer list extract_keymap returns has length max(resolved index)
\* + 1 when a layer is found, element i is the token list last assigned to
\* index i, every index without assignment holds None, and the list is empty
\* when no layer is found.
C14_LayerListDense ==
    k_pc = "returned" =>
        DenseOver(ReadLayers([i \in 1..Len(SelectItems(k_text, "keymaps")) |->
                      [layers |-> PopulateEnums(k_text,
                                      SelectItems(k_text, "keymaps")[i].layers)]]),
                  k_result.layers)

\* Explicit [0] and [2] without [1]: three elements, the second None.
C14_Witness ==
    /\ k_pc = "returned"
    /\ Len(k_result.layers) = 3
    /\ k_result.layers[1] # PyNone
    /\ k_result.layers[2] = PyNone
    /\ k_result.layers[3] # PyNone

(***************************************************************************)
(* merge_info_json on its own: a keyboard record as build_keyboard_info    *)
(* and find_layouts leave it, and a few manifests merged one after the     *)
(* other, as the loop of process_keyboard over find_info_json does.        *)
(***************************************************************************)
MaxManifests == 2

\* The headers the layouts of the record come from: one macro; two macros
\* and another name for the second; no macro.
MergeHeaderSet ==
    { << [kind |-> "macro", name |-> "LAYOUT", rows |-> << <<"k0", "k1">> >>,
          style |-> "oneline", text |-> ""] >>,
      << [kind |-> "macro", name |-> "LAYOUT", rows |-> << <<"k0", "k1">> >>,
          style |-> "oneline", text |-> ""],
         [kind |-> "macro", name |-> "LAYOUT_a", rows |-> << <<"k0">>, <<"k1">> >>,
          style |-> "hang", text |-> ""],
         [kind |-> "alias", name |-> "LAYOUT_all", rows |-> <<>>,
          style |-> "", text |-> "LAYOUT_a"] >>,
      << >> }

\* A manifest with key lists for a name and for another name of the same
\* record.
InfoAliases ==
    [kind |-> "dict",
     fields |-> [maintainer |-> <<"you">>, url |-> <<"u">>],
     layouts |-> << [name |-> "LAYOUT_all", layout |-> ManifestKeys(6, 3)],
                    [name |-> "LAYOUT_a", layout |-> ManifestKeys(7, 2)],
                    [name |-> "LAYOUT", layout |-> ManifestKeys(7, 3)] >>]

ManifestSet ==
    {InfoOk(2), InfoOk(3), InfoMismatch, InfoNoLayout, InfoInvalid, InfoList, InfoAliases}

\* keyboard_info after build_keyboard_info and the layouts found.
MergeStartsWith(found) ==
    /\ m_info = [BuildKeyboardInfo(<<"kb">>) EXCEPT !["layouts"] = found.result]
    /\ m_objs = found.records

InitMerge ==
    /\ error_log = <<>>
    /\ RulesIdle /\ ConfigIdle /\ KeymapIdle /\ RunIdle /\ LayoutsIdle /\ ClassifyIdle /\ MoreIdle
    /\ \E items \in MergeHeaderSet :
          MergeStartsWith(FindLayoutsIn(<<"kb">>, ParseHeader(RenderHeader(items))))
    /\ m_files \in UNION {[1..n -> ManifestSet] : n \in 1..MaxManifests}
    /\ m_i = 0
    /\ m_prev = [info |-> EmptyDict, objs |-> EmptyDict, log |-> <<>>, exc |-> NoExc]

\* What one call leaves behind; m_prev keeps what was there before it.
MergeStep(r) ==
    /\ m_info' = r.info
    /\ m_objs' = r.objs
    /\ error_log' = r.log
    /\ m_prev' = [info |-> m_info, objs |-> m_objs, log |-> error_log, exc |-> r.exc]

\* keyboard_info = merge_info_json(info_json_filename, keyboard_info) for the
\* next manifest; an exception ends the loop.
MergeNext ==
    /\ m_i < Len(m_files)
    /\ m_prev.exc = NoExc
    /\ MergeStep(MergeInfoJson([info |-> m_files], m_i + 1, m_info, m_objs, error_log))
    /\ m_i' = m_i + 1
    /\ UNCHANGED <<m_files, rulesVars, configVars, keymapVars, runVars, layoutVars,
                   classifyVars, moreVars>>

NextMerge == MergeNext

SpecMerge == InitMerge /\ [][NextMerge]_vars

\* The entries the last call appended to the error log.
MergeLogged == SubSeq(error_log, Len(m_prev.log) + 1, Len(error_log))

\* The last call only appended to the error log.
MergeLogKept ==
    /\ Len(error_log) >= Len(m_prev.log)
    /\ SubSeq(error_log, 1, Len(m_prev.log)) = m_prev.log

\* C15: when the manifest cannot be parsed as JSON or is not a JSON object,
\* merge_info_json returns the record unchanged, appends exactly one error
\* to the error log and does not raise.
C15_UnreadableManifestLeavesRecord ==
    (m_i >= 1 /\ m_files[m_i].kind # "dict") =>
        /\ m_prev.exc = NoExc
        /\ m_info = m_prev.info
        /\ m_objs = m_prev.objs
        /\ MergeLogKept
        /\ Len(MergeLogged) = 1
        /\ MergeLogged[1].severity = "error"
        /\ MergeLogged[1].message.kind =
              (IF m_files[m_i].kind = "invalid" THEN "Could not parse as JSON"
               ELSE "is invalid! Should be a JSON dict object.")

\* A keyboard with layouts and merged fields meets a manifest that is not
\* JSON, and one that is a JSON list.
C15_Witness ==
    /\ m_i = 2
    /\ m_files[1].kind = "dict"
    /\ m_files[2].kind = "invalid"
    /\ DOMAIN m_info["layouts"] # {}
    /\ m_info["maintainer"] # <<"qmk">>

\* The layout a name of the record had before the last call, and has now.
LayoutBefore(name) == m_prev.objs[m_prev.info["layouts"][name]].layout

LayoutNow(name) == m_objs[m_info["layouts"][name]].layout

\* C16: for a manifest layout whose name the record has, a different number
\* of keys appends exactly one error naming the keyboard, the layout and
\* both counts and leaves the layout of the record unchanged, and an equal
\* number makes the manifest's key list the layout of the record; a mismatch
\* does not keep the other layouts of the manifest from being merged.
C16_MismatchLeavesLayout ==
    (m_i >= 1 /\ m_files[m_i].kind = "dict" /\ m_prev.exc = NoExc) =>
        \A j \in 1..Len(m_files[m_i].layouts) :
            m_files[m_i].layouts[j].name \in DOMAIN m_info["layouts"] =>
                IF Len(LayoutBefore(m_files[m_i].layouts[j].name))
                      # Len(m_files[m_i].layouts[j].layout)
                THEN /\ LayoutNow(m_files[m_i].layouts[j].name)
                           = LayoutBefore(m_files[m_i].layouts[j].name)
                     /\ Cardinality({e \in 1..Len(MergeLogged) :
                            MergeLogged[e].message =
                                MismatchMsg(m_info, m_files[m_i].layouts[j].name,
                                    Len(m_files[m_i].layouts[j].layout),
                                    Len(LayoutBefore(m_files[m_i].layouts[j].name)))}) = 1
                ELSE LayoutNow(m_files[m_i].layouts[j].name) = m_files[m_i].layouts[j].layout

\* C17: merge_info_json adds no layout name and removes none, whatever was
\* merged before: the names of the record and the records they are bound to
\* stay, a layout only the manifest names is ignored, and nothing is logged
\* for it.
C17_LayoutNamesKept ==
    m_i >= 1 =>
        /\ m_info["layouts"] = m_prev.info["layouts"]
        /\ DOMAIN m_objs = DOMAIN m_prev.objs
        /\ MergeLogKept
        /\ \A e \in 1..Len(MergeLogged) :
              MergeLogged[e].message.kind = "Number of elements in info.json does not match!"
                  => MergeLogged[e].message.layout \in DOMAIN m_info["layouts"]
        /\ (m_files[m_i].kind = "dict" /\ m_prev.exc = NoExc) =>
              Len(MergeLogged) =
                  Cardinality({j \in 1..Len(m_files[m_i].layouts) :
                      /\ m_files[m_i].layouts[j].name \in DOMAIN m_info["layouts"]
                      /\ Len(LayoutBefore(m_files[m_i].layouts[j].name))
                            # Len(m_files[m_i].layouts[j].layout)})

\* A manifest naming LAYOUT_x, which the record with layouts does not have,
\* was merged without an error.
C17_Witness ==
    /\ m_i >= 1
    /\ m_files[m_i].kind = "dict"
    /\ \E j \in 1..Len(m_files[m_i].layouts) :
          m_files[m_i].layouts[j].name \notin DOMAIN m_info["layouts"]
    /\ DOMAIN m_info["layouts"] # {}
    /\ MergeLogged = <<>>
    /\ m_prev.exc = NoExc

\* The allow-listed identity keys a manifest holds.
IdentityKeysOf(manifest) ==
    IF manifest.kind = "dict" THEN (DOMAIN manifest.fields) \cap IdentityKeys ELSE {}

\* The last of the manifests merged so far that holds the key.
LastWith(k) == Max({i \in 1..m_i : k \in IdentityKeysOf(m_files[i])})

\* C18: each allow-listed identity key the manifest holds has the manifest's
\* value in the record, whatever the record held; every other field of the
\* record is as before (the layouts field keeps its names and their
\* records); after several manifests each such key has the value of the last
\* manifest that holds it.
C18_ManifestWinsIdentityKeys ==
    m_i >= 1 =>
        /\ DOMAIN m_info = (DOMAIN m_prev.info) \cup IdentityKeysOf(m_files[m_i])
        /\ \A k \in DOMAIN m_info :
              IF k \in IdentityKeysOf(m_files[m_i])
              THEN m_info[k] = m_files[m_i].fields[k]
              ELSE m_info[k] = m_prev.info[k]
        /\ \A k \in IdentityKeys :
              (\E i \in 1..m_i : k \in IdentityKeysOf(m_files[i]))
                  => m_info[k] = m_files[LastWith(k)].fields[k]

\* Two manifests with different maintainers were merged into a record that
\* had one from build_keyboard_info, and a key that is not allow-listed
\* (vendor_id) came with one of them.
C18_Witness ==
    /\ m_i = 2
    /\ "maintainer" \in IdentityKeysOf(m_files[1])
    /\ "maintainer" \in IdentityKeysOf(m_files[2])
    /\ m_files[1].fields["maintainer"] # m_files[2].fields["maintainer"]
    /\ m_info["maintainer"] = m_files[2].fields["maintainer"]
    /\ m_prev.info["maintainer"] = m_files[1].fields["maintainer"]

(***************************************************************************)
(* The platform keys of process_keyboard on their own: a record and the    *)
(* rules.mk keys of a keyboard, classified once.                           *)
(***************************************************************************)
\* The values a rules.mk key may have; PyNone stands for a key that is absent.
RulesChoices ==
    [MCU        : {<<"cortex-m4">>, <<"STM32F303">>, <<"MKL26Z64">>, <<"atmega32u4">>,
                   <<"attiny85">>, PyNone},
     MCU_SERIES : {<<"KL2x">>, PyNone},
     ARM_ATSAM  : {<<"SAMD51J18A">>, PyNone},
     BOOTLOADER : {<<"caterina">>, PyNone},
     ARCH       : {<<"AVR8">>, PyNone}]

\* The rules.mk dictionary of a choice: the keys that are present.
RulesOf(c) ==
    [k \in {<<n>> : n \in {m \in DOMAIN c : c[m] # PyNone}} |-> c[k[1]]]

InitClassify ==
    /\ error_log = <<>>
    /\ RulesIdle /\ ConfigIdle /\ KeymapIdle /\ RunIdle /\ LayoutsIdle /\ MergeIdle /\ MoreIdle
    /\ p_rules \in {RulesOf(c) : c \in RulesChoices}
    /\ p_info \in {BuildKeyboardInfo(<<"kb">>),
                   Put(BuildKeyboardInfo(<<"kb">>), "manufacturer", <<"Input", "Club">>)}
    /\ p_pc = "ready"

\* What the platform keys and the identifier leave behind.
ClassifyStep(r) ==
    /\ p_info' = r.info
    /\ error_log' = r.log

\* The branches on rules_mk.get('MCU') and the identifier.
DoClassify ==
    /\ p_pc = "ready"
    /\ ClassifyStep(Classify(p_info, p_rules, <<"kb">>, error_log))
    /\ p_pc' = "done"
    /\ UNCHANGED <<p_rules, rulesVars, configVars, keymapVars, runVars, layoutVars, mergeVars,
                   moreVars>>

NextClassify == DoClassify

SpecClassify == InitClassify /\ [][NextClassify]_vars

\* C19: a keyboard whose MCU is in the ARM list has processor_type 'arm' and
\* protocol 'ATSAM' when rules.mk holds ARM_ATSAM, 'ChibiOS' when it does
\* not, whatever the other keys of rules.mk are.
C19_AtsamWheneverFlagged ==
    (p_pc = "done" /\ Get(p_rules, <<"MCU">>, PyNone) \in ARM_PROCESSORS) =>
        /\ p_info["processor_type"] = <<"arm">>
        /\ p_info["protocol"] =
              (IF <<"ARM_ATSAM">> \in DOMAIN p_rules THEN <<"ATSAM">> ELSE <<"ChibiOS">>)

\* The MCU of the keyboard's rules.mk is given and is in neither list.
UnknownMcu(k) ==
    /\ ParseRulesMk(RulesFiles(tree), k).exc = NoExc
    /\ <<"MCU">> \in DOMAIN ParseRulesMk(RulesFiles(tree), k).map
    /\ ParseRulesMk(RulesFiles(tree), k).map[<<"MCU">>] \notin ARM_PROCESSORS \cup AVR_PROCESSORS

\* The 'Unknown MCU' warnings of the run for a keyboard.
UnknownMcuWarnings(log, k) ==
    {i \in 1..Len(log) :
        /\ log[i].severity = "warning"
        /\ log[i].message.kind = "Unknown MCU"
        /\ log[i].message.keyboard = k}

\* bootloader, platform, processor, processor_type and protocol are 'unknown'.
AllUnknown(doc) ==
    \A f \in {"bootloader", "platform", "processor", "processor_type", "protocol"} :
        f \in DOMAIN doc /\ doc[f] = <<"unknown">>

\* C20: a keyboard whose MCU is in neither list has bootloader, platform,
\* processor, processor_type and protocol 'unknown' in what is published for
\* it, exactly one 'Unknown MCU' warning in the error log once it is
\* classified, and the classification never fails: the keyboard is published
\* unless another stage raises.
C20_UnknownMcuPublished ==
    run > 0 =>
        \A k \in Keyboards :
            UnknownMcu(k) =>
                /\ Cardinality(UnknownMcuWarnings(error_log, k)) =
                      (IF "CLASSIFIED" \in Range(trace[k]) THEN 1 ELSE 0)
                /\ Stage(k) = "FAILED" => Completed(k)[Len(Completed(k))] # "CONFIG_RESOLVED"
                /\ k \in DOMAIN kb_all.keyboards => AllUnknown(kb_all.keyboards[k])
                /\ WrittenNow(KbKey(k)) => AllUnknown(store[KbKey(k)])
                /\ (LoopOver /\ "CLASSIFIED" \in Range(trace[k]) /\ Stage(k) # "FAILED") =>
                      /\ k \in Range(kb_list)
                      /\ k \in DOMAIN kb_all.keyboards
                      /\ WrittenNow(KbKey(k))
                /\ (pc = "idle" /\ k \in Range(kb_list)) =>
                      /\ AllUnknown(store[KbAllKey].keyboards[k])
                      /\ Cardinality(UnknownMcuWarnings(store[ErrorLogKey], k)) = 1

\* A run has returned with a keyboard of unknown MCU in the catalog and its
\* warning in the error log written to the store.
C20_Witness ==
    /\ pc = "idle"
    /\ run = 1
    /\ \E k \in Keyboards :
          /\ UnknownMcu(k)
          /\ k \in Range(store[KeyboardsKey])
          /\ AllUnknown(store[KbKey(k)])
          /\ Cardinality(UnknownMcuWarnings(store[ErrorLogKey], k)) = 1

(***************************************************************************)
(* build_usb_entry and the statement that files the entry in usb_list,     *)
(* for keyboards whose config.h spell their USB IDs in every way.          *)
(***************************************************************************)
MaxUsbKeyboards == 2

UsbWords == {Join(cs) : cs \in UsbSpellings}

\* `#define KEY word` as parse_config_h returns it, or nothing.
Define(key, word) == IF word = "" THEN EmptyDict ELSE Put(EmptyDict, key, <<word>>)

\* `#define KEY`
Flag(key) == Put(EmptyDict, key, PyTrue)

\* The dictionary with the keys of both.
Both(d, e) == [k \in (DOMAIN d) \cup (DOMAIN e) |-> IF k \in DOMAIN e THEN e[k] ELSE d[k]]

\* What the config.h of the first keyboard defines.
UsbConfigs ==
    {Both(Both(v, p), d) :
        v \in {Define("VENDOR_ID", w) : w \in UsbWords \cup {""}} \cup {Flag("VENDOR_ID")},
        p \in {Define("PRODUCT_ID", w) : w \in {"", "0x1", "0X1c", "1C"}},
        d \in {Define("DEVICE_VER", w) : w \in {"0x11", "0X1c", "c1", "C"}}
              \cup {Flag("DEVICE_VER"), Define("MANUFACTURER", "c1"), EmptyDict}}

\* What the config.h of the keyboards after it define.
UsbConfigsAfter ==
    { EmptyDict, Define("VENDOR_ID", "0xc1"), Both(Define("VENDOR_ID", "C1"), Define("PRODUCT_ID", "0x1c")),
      Both(Define("VENDOR_ID", "0X1"), Flag("PRODUCT_ID")) }

UsbKeyboard(i) == CASE i = 1 -> <<"kb/a">> [] i = 2 -> <<"kb/b">> [] i = 3 -> <<"kb/c">>
                    [] OTHER -> <<"kb/d">>

InitUsb ==
    /\ RulesIdle /\ ConfigIdle /\ KeymapIdle /\ RunIdle /\ LayoutsIdle /\ MergeIdle
    /\ ClassifyIdle /\ CheckoutIdle /\ UpdateIdle
    /\ error_log = <<>>
    /\ u_configs \in UNION {{<<c>> \o rest : c \in UsbConfigs, rest \in [1..n -> UsbConfigsAfter]} :
                            n \in 0..(MaxUsbKeyboards - 1)}
    /\ u_i = 0
    /\ u_usb = EmptyDict

\* Lines 568 and 569 for the next keyboard, u being what build_usb_entry
\* returned or raised.
UsbStep(u) ==
    /\ u_usb' = IF u.exc # NoExc THEN u.usb
                ELSE InsertUsbEntry(u.usb, UsbKeyboard(u_i + 1), u.usb_entry)
    /\ u_i' = u_i + 1

DoUsbEntry ==
    /\ u_i < Len(u_configs)
    /\ UsbStep(BuildUsbEntry(BuildKeyboardInfo(UsbKeyboard(u_i + 1)), u_configs[u_i + 1], u_usb))
    /\ UNCHANGED <<error_log, u_configs, rulesVars, configVars, keymapVars, runVars, layoutVars,
                   mergeVars, classifyVars, checkoutVars, updateVars>>

NextUsb == DoUsbEntry

SpecUsb == InitUsb /\ [][NextUsb]_vars

\* The entries of the registry, each with the IDs and the name it is filed under.
UsbFiled ==
    UNION {UNION {{[vendor_id |-> v, product_id |-> p, keyboard |-> k, entry |-> u_usb[v][p][k]] :
                   k \in DOMAIN u_usb[v][p]} : p \in DOMAIN u_usb[v]} : v \in DOMAIN u_usb}

\* An ID is the word '0x' followed by uppercase hexadecimal digits.
IsNormalized(id) ==
    /\ Len(id) = 1
    /\ Len(Spelling(id[1])) > 2
    /\ SubSeq(Spelling(id[1]), 1, 2) = <<"0", "x">>
    /\ \A i \in 3..Len(Spelling(id[1])) :
           Spelling(id[1])[i] \in {"0", "1", "2", "3", "4", "5", "6", "7", "8", "9",
                                   "A", "B", "C", "D", "E", "F"}

\* The keyboards whose entry was built.
UsbDone == {i \in 1..u_i : \A key \in DOMAIN u_configs[i] : u_configs[i][key] # PyTrue}

\* The entry the registry holds for the keyboard i, if any.
UsbFiledFor(i) == {f \in UsbFiled : f.keyboard = UsbKeyboard(i)}

\* The ID of the entry is the normalised word of config.h.
IdOf(entry, field, config_h, key) ==
    /\ IsNormalized(entry[field])
    /\ HexId(entry[field]) = entry[field]
    /\ UpperNo0X(entry[field][1]) = UpperNo0X(config_h[key][1])

\* C21: every entry of usb_list is filed under the vendor and product ID it
\* holds itself; vendor_id, product_id and device_ver when config.h defines
\* DEVICE_VER are '0x' and the uppercase hexadecimal digits of the word of
\* config.h; a keyboard without VENDOR_ID or PRODUCT_ID gets 0xFEED and
\* 0x0000; and normalising a normalised ID gives the same ID.
C21_RegistryUnderOwnIds ==
    /\ \A f \in UsbFiled :
           /\ f.entry["vendor_id"] = f.vendor_id
           /\ f.entry["product_id"] = f.product_id
           /\ f.entry["keyboard"] = f.keyboard
           /\ IsNormalized(f.vendor_id) /\ IsNormalized(f.product_id)
           /\ HexId(f.vendor_id) = f.vendor_id /\ HexId(f.product_id) = f.product_id
           /\ "device_ver" \in DOMAIN f.entry =>
                  IsNormalized(f.entry["device_ver"])
                      /\ HexId(f.entry["device_ver"]) = f.entry["device_ver"]
    /\ \A i \in UsbDone :
           /\ Cardinality(UsbFiledFor(i)) = 1
           /\ \A f \in UsbFiledFor(i) :
                  /\ "VENDOR_ID" \notin DOMAIN u_configs[i] => f.vendor_id = <<"0xFEED">>
                  /\ "PRODUCT_ID" \notin DOMAIN u_configs[i] => f.product_id = <<"0x0000">>
                  /\ "VENDOR_ID" \in DOMAIN u_configs[i] =>
                         IdOf(f.entry, "vendor_id", u_configs[i], "VENDOR_ID")
                  /\ "PRODUCT_ID" \in DOMAIN u_configs[i] =>
                         IdOf(f.entry, "product_id", u_configs[i], "PRODUCT_ID")
                  /\ "device_ver" \in DOMAIN f.entry <=> "DEVICE_VER" \in DOMAIN u_configs[i]
                  /\ "DEVICE_VER" \in DOMAIN u_configs[i] =>
                         IdOf(f.entry, "device_ver", u_configs[i], "DEVICE_VER")

\* Two keyboards that spell one vendor and product ID differently are filed
\* together, and the first has a DEVICE_VER written with 0X and a lowercase
\* digit that its entry holds as 0x1C.
C21_Witness ==
    /\ \E f \in UsbFiled, g \in UsbFiled :
           /\ f.keyboard # g.keyboard
           /\ f.vendor_id = g.vendor_id /\ f.product_id = g.product_id
    /\ u_i = 2
    /\ "VENDOR_ID" \in DOMAIN u_configs[1] /\ "VENDOR_ID" \in DOMAIN u_configs[2]
    /\ u_configs[1]["VENDOR_ID"] # u_configs[2]["VENDOR_ID"]
    /\ "DEVICE_VER" \in DOMAIN u_configs[1]
    /\ u_configs[1]["DEVICE_VER"] = <<"0X1c">>
    /\ \A f \in UsbFiledFor(1) : f.entry["device_ver"] = <<"0x1C">>

(***************************************************************************)
(* checkout_qmk, fetch_source and git_clone in a world of directories.     *)
(* A path is the sequence of its names; the world holds the working        *)
(* directory, the directories and zip files that exist, where each         *)
(* checkout came from, the version the cache and the git remote hold, and  *)
(* what the external commands will answer.                                 *)
(***************************************************************************)
\* repo_name(QMK_GIT_URL)
Repo == "qmk_firmware"

\* repo + '.zip'
RepoZip == "qmk_firmware.zip"

\* cwd/name
At(w, name) == Append(w.cwd, name)

\* Is p the path q or a path below it?
Under(p, q) == Len(p) >= Len(q) /\ SubSeq(p, 1, Len(q)) = q

\* One more effect in the record of effects.
Did(w, op) == [w EXCEPT !.ops = Append(@, op)]

\* os.path.exists(name) for a directory
Exists(w, name) == At(w, name) \in w.dirs

\* rmtree(name)
Rmtree(w, name) ==
    Did([w EXCEPT !.dirs = {p \in @ : ~ Under(p, At(w, name))},
                  !.zips = {p \in @ : ~ Under(p, At(w, name))},
                  !.checkouts = [p \in {x \in DOMAIN @ : ~ Under(x, At(w, name))} |-> @[p]]],
        "rmtree")

\* os.chdir('..')
ChdirUp(w) ==
    Did([w EXCEPT !.cwd = IF @ = <<>> THEN <<>> ELSE SubSeq(@, 1, Len(@) - 1)], "chdir ..")

\* os.chdir(name)
Chdir(w, name) ==
    IF Exists(w, name) THEN Did([w EXCEPT !.cwd = At(w, name)], "chdir")
    ELSE [w EXCEPT !.exc = Exc("FileNotFoundError", name)]

\* unzip_source(repo_zip): the checkout of the cached version, and the zip
\* file removed, or False.
UnzipSource(w) ==
    IF w.unzip_ok
    THEN [ok |-> TRUE,
          w  |-> Did([w EXCEPT !.dirs = @ \cup {At(w, Repo)},
                               !.checkouts = Put(@, At(w, Repo),
                                                 [origin |-> "cache", version |-> w.cached]),
                               !.zips = @ \ {At(w, RepoZip)}], "unzip")]
    ELSE [ok |-> FALSE, w |-> Did(w, "unzip")]

\* fetch_source(repo): storage answers with the zip or raises, ClientError
\* or FileNotFoundError by the engine; the except clause names
\* qmk_storage.exceptions, which the module does not have.
FetchSource(w) ==
    IF w.cached = 0
    THEN [ok |-> FALSE,
          w  |-> [Did([w EXCEPT !.zips = @ \ {At(w, RepoZip)}], "get") EXCEPT
                     !.exc = Exc("AttributeError",
                                 "module 'qmk_storage' has no attribute 'exceptions'")]]
    ELSE UnzipSource(Did([w EXCEPT !.zips = @ \cup {At(w, RepoZip)}], "get"))

\* store_source(zipfile_name, repo, 'cache')
StoreSource(w) ==
    Did([w EXCEPT !.zips = @ \cup {At(w, RepoZip)},
                  !.cached = w.checkouts[At(w, Repo)].version], "store")

\* git_clone(): the try block, all of it or up to the failing command.
CloneTry(w) ==
    IF w.clone_ok
    THEN ChdirUp(Chdir(Did([w EXCEPT !.dirs = @ \cup {At(w, Repo)},
                                     !.checkouts = Put(@, At(w, Repo),
                                                       [origin |-> "git", version |-> w.remote])],
                           "clone"), Repo))
    ELSE ChdirUp(Did(w, "clone"))

\* git_clone()
GitClone(w) == IF w.clone_ok THEN StoreSource(CloneTry(w)) ELSE CloneTry(w)

\* `if os.path.exists('qmk_firmware'): rmtree('qmk_firmware')`
RemoveOld(w) == IF Exists(w, Repo) THEN Rmtree(w, Repo) ELSE w

\* The branch of checkout_qmk on what fetch_source returned or raised.
AfterFetch(f, require_cache) ==
    IF f.w.exc # NoExc \/ require_cache \/ f.ok THEN f.w ELSE GitClone(f.w)

\* A checkout_qmk that looks at its flags after it removed the old checkout.
CheckoutQmkRemoving(w, skip_cache, require_cache) ==
    IF skip_cache /\ require_cache
    THEN [RemoveOld(w) EXCEPT !.exc = Exc("ValueError", "skip_cache and require_cache conflict!")]
    ELSE IF require_cache \/ ~ skip_cache
    THEN AfterFetch(FetchSource(RemoveOld(w)), require_cache)
    ELSE GitClone(RemoveOld(w))

\* checkout_qmk(skip_cache, require_cache)
CheckoutQmk(w, skip_cache, require_cache) ==
    IF skip_cache /\ require_cache
    THEN [w EXCEPT !.exc = Exc("ValueError", "skip_cache and require_cache conflict!")]
    ELSE IF require_cache \/ ~ skip_cache
    THEN AfterFetch(FetchSource(RemoveOld(w)), require_cache)
    ELSE GitClone(RemoveOld(w))

\* The directory the job is started in.
Home == <<"srv">>

\* The worlds checkout_qmk is called in: with or without an old checkout and
\* an old zip file, in the directory the job runs in.
Worlds ==
    {[cwd |-> Home \o sub,
      dirs |-> {<<>>, Home, Home \o sub} \cup old \cup {SubSeq(p, 1, Len(p) - 1) : p \in old},
      zips |-> zip,
      checkouts |-> [p \in old |-> [origin |-> "git", version |-> 1]],
      cached |-> c, remote |-> 2, unzip_ok |-> uz, clone_ok |-> cl,
      ops |-> <<>>, exc |-> NoExc] :
        sub \in {<<>>, <<"update_kb_redis">>},
        old \in {{}, {Home \o <<Repo>>}, {Home \o <<"update_kb_redis", Repo>>}},
        zip \in {{}, {Home \o <<RepoZip>>}},
        c \in 0..1, uz \in BOOLEAN, cl \in BOOLEAN}

InitCheckout ==
    /\ RulesIdle /\ ConfigIdle /\ KeymapIdle /\ RunIdle /\ LayoutsIdle /\ MergeIdle
    /\ ClassifyIdle /\ UsbIdle /\ UpdateIdle
    /\ error_log = <<>>
    /\ q_args \in [skip_cache : BOOLEAN, require_cache : BOOLEAN, w : Worlds]
    /\ q_w = q_args.w
    /\ q_pc = "call"

DoCheckout ==
    /\ q_pc = "call"
    /\ q_w' = CheckoutQmk(q_w, q_args.skip_cache, q_args.require_cache)
    /\ q_pc' = "done"
    /\ UNCHANGED <<error_log, q_args, rulesVars, configVars, keymapVars, runVars, layoutVars,
                   mergeVars, classifyVars, usbVars, updateVars>>

NextCheckout == DoCheckout

SpecCheckout == InitCheckout /\ [][NextCheckout]_vars

\* C22: with both flags checkout_qmk raises ValueError and has done nothing:
\* the checkout that was there is there, nothing was fetched or cloned.
C22_ConflictBeforeAnyEffect ==
    (q_pc = "done" /\ q_args.skip_cache /\ q_args.require_cache) =>
        /\ q_w.exc.cls = "ValueError"
        /\ q_w.ops = <<>>
        /\ [q_w EXCEPT !.exc = NoExc] = q_args.w

C22_Witness ==
    /\ q_pc = "done" /\ q_args.skip_cache /\ q_args.require_cache
    /\ Exists(q_args.w, Repo)
    /\ Exists(q_w, Repo)

\* The effects checkout_qmk had, by name.
Effects == {q_w.ops[i] : i \in 1..Len(q_w.ops)}

\* C23: with require_cache the cache is read and git never runs; with
\* skip_cache git runs and the cache is not read; with neither flag the cache
\* is read first and git runs exactly when the fetch or the unzip failed; an
\* old checkout is removed before anything else.
C23_SourceByFlag ==
    (q_pc = "done" /\ ~ (q_args.skip_cache /\ q_args.require_cache)) =>
        /\ q_args.require_cache => "get" \in Effects /\ "clone" \notin Effects
        /\ q_args.skip_cache => "clone" \in Effects /\ "get" \notin Effects
        /\ (~ q_args.skip_cache /\ ~ q_args.require_cache) =>
               /\ q_w.ops[IF Exists(q_args.w, Repo) THEN 2 ELSE 1] = "get"
               /\ "clone" \in Effects <=> (q_args.w.cached = 0 \/ ~ q_args.w.unzip_ok)
        /\ Exists(q_args.w, Repo) => q_w.ops[1] = "rmtree"

(***************************************************************************)
(* The job update_kb_redis in its directories, next to update_needed jobs  *)
(* that other workers run while it is running.                             *)
(***************************************************************************)
MaxChanges == 2

\* mkdir(name)
Mkdir(w, name) == Did([w EXCEPT !.dirs = @ \cup {At(w, name)}], "mkdir")

\* Lines 609 to 614: the directory of the job, made anew and entered.
EnterRunDir(w, debug) ==
    IF debug THEN w
    ELSE Chdir(Mkdir(IF Exists(w, "update_kb_redis") THEN Rmtree(w, "update_kb_redis") ELSE w,
                     "update_kb_redis"),
               "update_kb_redis")

\* Lines 617 and 618
CheckoutForRun(w, debug) ==
    IF ~ debug \/ ~ Exists(w, Repo) THEN CheckoutQmk(w, TRUE, FALSE) ELSE w

\* list_keyboards(): the `finally` runs when the directory was entered.
ListKeyboards(w) == IF Exists(w, Repo) THEN ChdirUp(Chdir(w, Repo)) ELSE Chdir(w, Repo)

\* The worlds the job starts in: with the directory of an earlier run or
\* without, with a checkout next to it or without, git answering or failing.
UpdateWorlds ==
    {[cwd |-> Home,
      dirs |-> {<<>>, Home} \cup old \cup {SubSeq(p, 1, Len(p) - 1) : p \in old},
      zips |-> {},
      checkouts |-> [p \in old |-> [origin |-> "git", version |-> 1]],
      cached |-> 1, remote |-> 1, unzip_ok |-> TRUE, clone_ok |-> cl,
      ops |-> <<>>, exc |-> NoExc] :
        old \in SUBSET {Home \o <<Repo>>, Home \o <<"update_kb_redis", Repo>>},
        cl \in BOOLEAN}

InitUpdate ==
    /\ RulesIdle /\ ConfigIdle /\ KeymapIdle /\ RunIdle /\ LayoutsIdle /\ MergeIdle
    /\ ClassifyIdle /\ UsbIdle /\ CheckoutIdle
    /\ error_log = <<>>
    /\ g_debug \in BOOLEAN
    /\ g_w \in UpdateWorlds
    /\ g_pc = "enter"
    /\ g_flag = TRUE
    /\ g_jobs = <<>>
    /\ g_seen = [before |-> 1, after |-> 0]
    /\ g_used = 0

updateFrame ==
    <<error_log, rulesVars, configVars, keymapVars, runVars, layoutVars, mergeVars, classifyVars,
      usbVars, checkoutVars>>

\* A step of the job: the world after it, and where the job goes on.
UpdStep(w, next) ==
    /\ g_w' = w
    /\ g_pc' = IF w.exc # NoExc THEN "raised" ELSE next

\* Lines 608 to 614
UpdEnter ==
    /\ g_pc = "enter"
    /\ UpdStep(EnterRunDir(g_w, g_debug), "reset")
    /\ UNCHANGED <<g_debug, g_flag, g_jobs, g_seen, g_used, updateFrame>>

\* Line 615: qmk_redis.set('qmk_needs_update', False)
UpdReset ==
    /\ g_pc = "reset"
    /\ g_flag' = FALSE
    /\ g_pc' = "checkout"
    /\ UNCHANGED <<g_debug, g_w, g_jobs, g_seen, g_used, updateFrame>>

\* Lines 617 and 618
UpdCheckout ==
    /\ g_pc = "checkout"
    /\ UpdStep(CheckoutForRun(g_w, g_debug), "list")
    /\ UNCHANGED <<g_debug, g_flag, g_jobs, g_seen, g_used, updateFrame>>

\* The version of the checkout list_keyboards() enters.
ListedVersion(w) == IF Exists(w, Repo) THEN w.checkouts[At(w, Repo)].version ELSE 0

\* Line 624: list_keyboards()
UpdList ==
    /\ g_pc = "list"
    /\ UpdStep(ListKeyboards(g_w), "loop")
    /\ g_used' = ListedVersion(g_w)
    /\ UNCHANGED <<g_debug, g_flag, g_jobs, g_seen, updateFrame>>

\* Lines 624 to 640: the keyboards and the five keys, none of which changes
\* the directory or the flag.
UpdLoop ==
    /\ g_pc = "loop"
    /\ g_pc' = "leave"
    /\ UNCHANGED <<g_debug, g_w, g_flag, g_jobs, g_seen, g_used, updateFrame>>

\* Line 642: chdir('..')
UpdLeave ==
    /\ g_pc = "leave"
    /\ UpdStep(ChdirUp(g_w), "done")
    /\ UNCHANGED <<g_debug, g_flag, g_jobs, g_seen, g_used, updateFrame>>

\* A change arrives in the git remote and an update_needed job is queued.
Change ==
    /\ g_pc \notin {"done", "raised"}
    /\ g_w.remote <= MaxChanges
    /\ g_w' = [g_w EXCEPT !.remote = @ + 1]
    /\ g_jobs' = Append(g_jobs, g_w.remote + 1)
    /\ UNCHANGED <<g_debug, g_pc, g_flag, g_seen, g_used, updateFrame>>

\* The request of a job, counted before or after the reset.
Seen(seen, version, pos) ==
    IF pos \in {"enter", "reset"} THEN [seen EXCEPT !.before = version]
    ELSE [seen EXCEPT !.after = @ + 1]

\* update_needed(): a worker runs the oldest job.
UpdateNeeded ==
    /\ g_pc \notin {"done", "raised"}
    /\ g_jobs # <<>>
    /\ g_flag' = TRUE
    /\ g_jobs' = Tail(g_jobs)
    /\ g_seen' = Seen(g_seen, Head(g_jobs), g_pc)
    /\ UNCHANGED <<g_debug, g_w, g_pc, g_used, updateFrame>>

NextUpdate ==
    \/ UpdEnter
    \/ UpdReset
    \/ UpdCheckout
    \/ UpdList
    \/ UpdLoop
    \/ UpdLeave
    \/ Change
    \/ UpdateNeeded

SpecUpdate == InitUpdate /\ [][NextUpdate]_vars

\* The job returned or raised.
RunEnded == g_pc \in {"done", "raised"}

\* C27: when the run ends, a request written after the reset has left the
\* flag True, and the change of a request written before the reset is in the
\* checkout the run worked on.
C27_RequestNeverLost ==
    RunEnded =>
        /\ g_seen.after > 0 => g_flag = TRUE
        /\ g_seen.before <= g_used

\* How often the record of effects holds op.
Count(ops, op) == Cardinality({i \in 1..Len(ops) : ops[i] = op})

\* C28: when the run ends the working directory is the one it started in, and
\* there are as many chdir('..') as chdir into a directory.
C28_WorkingDirectoryRestored ==
    RunEnded =>
        /\ g_w.cwd = Home
        /\ Count(g_w.ops, "chdir") = Count(g_w.ops, "chdir ..")

(***************************************************************************)
(* The info.json files of a keyboard and the order they are merged in.     *)
(***************************************************************************)
\* The directories of the keyboard from the folder above it down to its own
\* that hold an info.json, read off the tree.
ChainWithInfo(t, k) ==
    SelectSeq(<< <<"kb">>, SplitPath(k) >>, LAMBDA d : d \in DOMAIN t.info)

\* The folders the DEFAULT_FOLDER lines of the keyboard's rules.mk name.
DefaultFolders(t, k) ==
    {SplitPath(<<t.rules[k][i][3]>>) :
        i \in {j \in 1..Len(t.rules[k]) : /\ Len(t.rules[k][j]) = 3
                                          /\ t.rules[k][j][1] = "DEFAULT_FOLDER"}}

\* The list the claim describes.
InfoFilesAsDescribed(t, k) ==
    IF \E d \in DefaultFolders(t, k) : d \in DOMAIN t.info
    THEN Append(ChainWithInfo(t, k), CHOOSE d \in DefaultFolders(t, k) : d \in DOMAIN t.info)
    ELSE ChainWithInfo(t, k)

\* The files of the list that hold the identity key.
Holding(t, files, key) == {i \in 1..Len(files) : key \in IdentityKeysOf(t.info[files[i]])}

\* The merge stage of the current keyboard has just come to its end.
JustMerged == pc = "config"

\* C24: find_info_json lists the info.json files from the folder above down
\* to the keyboard's own directory and then the DEFAULT_FOLDER's, and after
\* the merges each identity key has the value of the last listed file that
\* holds it.
C24_InfoFilesNearestLast ==
    JustMerged =>
        /\ FindInfoJson(tree, Keyboard).files = InfoFilesAsDescribed(tree, Keyboard)
        /\ \A key \in IdentityKeys :
               Holding(tree, FindInfoJson(tree, Keyboard).files, key) # {} =>
                   keyboard_info[key] =
                       tree.info[FindInfoJson(tree, Keyboard).files[
                           Max(Holding(tree, FindInfoJson(tree, Keyboard).files, key))]].fields[key]

\* The folder above and the keyboard both have an info.json with a url, and
\* the keyboard's own is in the record.
C24_Witness ==
    /\ JustMerged
    /\ Len(FindInfoJson(tree, Keyboard).files) = 2
    /\ FindInfoJson(tree, Keyboard).files[2] = SplitPath(Keyboard)
    /\ Cardinality(Holding(tree, FindInfoJson(tree, Keyboard).files, "url")) = 2
    /\ keyboard_info["url"] # tree.info[<<"kb">>].fields["url"]

(***************************************************************************)
(* The counter of extract_keymap's layer loop.                             *)
(***************************************************************************)
\* The layers extract_keymap's loop goes through, enum names replaced.
LoopLayers ==
    ReadLayers([i \in 1..Len(SelectItems(k_text, "keymaps")) |->
                   [layers |-> PopulateEnums(k_text, SelectItems(k_text, "keymaps")[i].layers)]])

\* The index of a layer when only layers with an empty index take the
\* counter; -1 for an index that is a name.
EmptyOnlyIndex(found, i) ==
    IF IsDigit(found[i].idx) THEN PyInt(found[i].idx)
    ELSE IF found[i].idx = "" THEN Cardinality({j \in 1..(i - 1) : found[j].idx = ""})
    ELSE 0 - 1

\* Every layer that has an index under Idx is in the list at that index,
\* unless a later layer has the same index.
SlotsHold(found, layers, Idx(_, _)) ==
    \A i \in 1..Len(found) :
        Idx(found, i) >= 0 =>
            /\ Len(layers) > Idx(found, i)
            /\ layers[Idx(found, i) + 1] =
                   Str(found[Max({j \in 1..Len(found) : Idx(found, j) = Idx(found, i)})].args)

\* C25 as stated: a numeric index is used directly and the counter, from 0,
\* is taken and advanced by the layers with an empty index only.
C25_CounterForEmptyIndexOnly ==
    k_pc = "returned" => SlotsHold(LoopLayers, k_result.layers, EmptyOnlyIndex)

\* C25: a numeric index is used directly; the counter, from 0, is taken and
\* advanced by every layer whose index is empty or is not a number.
C25_CounterForNonNumericIndex ==
    k_pc = "returned" => SlotsHold(LoopLayers, k_result.layers, ResolvedIndex)

\* A layer with a name for its index takes 0 and the layer without index
\* after it takes 1.
C25_Witness ==
    /\ k_pc = "returned"
    /\ \E i \in 1..Len(LoopLayers) : \E j \in (i + 1)..Len(LoopLayers) :
           /\ LoopLayers[i].idx # "" /\ ~ IsDigit(LoopLayers[i].idx)
           /\ LoopLayers[j].idx = ""
           /\ ResolvedIndex(LoopLayers, j) = ResolvedIndex(LoopLayers, i) + 1
           /\ Len(k_result.layers) > ResolvedIndex(LoopLayers, j)
           /\ k_result.layers[ResolvedIndex(LoopLayers, j) + 1] = Str(LoopLayers[j].args)
           /\ k_result.layers[ResolvedIndex(LoopLayers, i) + 1] = Str(LoopLayers[i].args)

(***************************************************************************)
(* The three aggregates at the time they are written.                      *)
(***************************************************************************)
\* The keyboards with an entry in usb_list.
UsbKeyboards == {k \in Keyboards : InUsbList(k)}

\* C26: when the aggregates are written, the keyboards of usb_list, the keys
\* of kb_all['keyboards'] and the names of kb_list are the same set.
C26_AggregatesAgree ==
    pc \in {"set_keyboards", "set_kb_all", "set_usb_list"} =>
        /\ UsbKeyboards = DOMAIN kb_all.keyboards
        /\ DOMAIN kb_all.keyboards = Range(kb_list)

(***************************************************************************)
(* The published record against rules.mk, config.h and the info.json files.*)
(***************************************************************************)
\* rules.mk and config.h of a keyboard as process_keyboard parses them.
RulesMkOf(k) == ParseRulesMk(RulesFiles(tree), k).map

ConfigHOf(k) == ParseConfigH(tree, k, <<>>).map

\* The processor by rules.mk: the MCU when it is a known one, 'unknown' when
\* it is not known or not given.
ProcessorByRules(rules) ==
    IF Get(rules, <<"MCU">>, PyNone) \in (ARM_PROCESSORS \cup AVR_PROCESSORS) \ {PyNone}
    THEN rules[<<"MCU">>] ELSE <<"unknown">>

\* The bootloaders the classification gives without a BOOTLOADER in rules.mk.
BootloaderDefaults == { <<"atmel-dfu">>, <<"stm32-dfu">>, <<"kiibohd-dfu">>, <<"unknown">> }

\* The bootloader by rules.mk: BOOTLOADER for a known MCU that has one.
BootloaderByRules(rules, bootloader) ==
    IF /\ Get(rules, <<"MCU">>, PyNone) \in ARM_PROCESSORS \cup AVR_PROCESSORS
       /\ <<"BOOTLOADER">> \in DOMAIN rules
    THEN bootloader = rules[<<"BOOTLOADER">>]
    ELSE bootloader \in BootloaderDefaults

\* The info.json files of the keyboard that name the field.
ManifestsNaming(k, key) ==
    {i \in 1..Len(FindInfoJson(tree, k).files) :
        /\ tree.info[FindInfoJson(tree, k).files[i]].kind = "dict"
        /\ key \in DOMAIN tree.info[FindInfoJson(tree, k).files[i]].fields}

\* The keyboards with a record in kb_all.
InCatalog == IF run > 0 THEN DOMAIN kb_all.keyboards ELSE {}

\* C29: in the record of every published keyboard the processor and the
\* bootloader are those of rules.mk or the defaults of the classification,
\* and the manufacturer is that of config.h when config.h defines
\* MANUFACTURER, whatever the info.json files name.
C29_RulesAndConfigOverManifest ==
    \A k \in InCatalog :
        /\ kb_all.keyboards[k]["processor"] = ProcessorByRules(RulesMkOf(k))
        /\ BootloaderByRules(RulesMkOf(k), kb_all.keyboards[k]["bootloader"])
        /\ "MANUFACTURER" \in DOMAIN ConfigHOf(k) =>
               kb_all.keyboards[k]["manufacturer"] = ConfigHOf(k)["MANUFACTURER"]

\* The info.json files of the keyboard name the field, and none of them with
\* the value of the published record.
ManifestsOverruled(k, key) ==
    /\ ManifestsNaming(k, key) # {}
    /\ \A i \in ManifestsNaming(k, key) :
           tree.info[FindInfoJson(tree, k).files[i]].fields[key] # kb_all.keyboards[k][key]

\* A published keyboard whose info.json files name a processor, a bootloader
\* and a manufacturer other than those of rules.mk, the classification and
\* config.h, and one whose info.json names a bootloader other than the
\* BOOTLOADER of its rules.mk.
C29_Witness ==
    /\ \E k \in InCatalog :
           /\ ManifestsOverruled(k, "processor")
           /\ ManifestsOverruled(k, "bootloader")
           /\ ManifestsOverruled(k, "manufacturer")
           /\ "MANUFACTURER" \in DOMAIN ConfigHOf(k)
           /\ <<"BOOTLOADER">> \notin DOMAIN RulesMkOf(k)
    /\ \E k \in InCatalog :
           /\ ManifestsOverruled(k, "bootloader")
           /\ <<"BOOTLOADER">> \in DOMAIN RulesMkOf(k)
           /\ kb_all.keyboards[k]["bootloader"] = RulesMkOf(k)[<<"BOOTLOADER">>]

(***************************************************************************)
(* A rules.mk without MCU.                                                 *)
(***************************************************************************)
\* rules.mk names no MCU and the branches have been taken.
NoMcuClassified == p_pc = "done" /\ <<"MCU">> \notin DOMAIN p_rules

\* C30: a keyboard without MCU in rules.mk is classified as AVR: processor_type
\* 'avr', processor 'unknown', protocol 'LUFA', the bootloader of BOOTLOADER
\* or 'atmel-dfu', the platform of ARCH or 'unknown', and no warning about an
\* unknown MCU in the error log.
C30_NoMcuIsAvr ==
    NoMcuClassified =>
        /\ p_info["processor_type"] = <<"avr">>
        /\ p_info["processor"] = <<"unknown">>
        /\ p_info["protocol"] = <<"LUFA">>
        /\ p_info["bootloader"] = IF <<"BOOTLOADER">> \in DOMAIN p_rules
                                  THEN p_rules[<<"BOOTLOADER">>] ELSE <<"atmel-dfu">>
        /\ p_info["platform"] = IF <<"ARCH">> \in DOMAIN p_rules
                                THEN p_rules[<<"ARCH">>] ELSE <<"unknown">>
        /\ \A i \in 1..Len(error_log) : error_log[i].message.kind # "Unknown MCU"

\* No MCU, with a BOOTLOADER and without ARCH.
C30_Witness ==
    /\ NoMcuClassified
    /\ <<"BOOTLOADER">> \in DOMAIN p_rules
    /\ <<"ARCH">> \notin DOMAIN p_rules
    /\ p_info["processor_type"] = <<"avr">>
    /\ p_info["bootloader"] = <<"caterina">>

====
